---- MODULE Spec2Model ----
(***************************************************************************)
(* Order lifecycle and risk core of the Offset-Maker strategy engine       *)
(* (src/src/strategy/offset-maker-engine.ts).                              *)
(*                                                                         *)
(* The engine is a single-threaded cooperative task.  tick() is an async   *)
(* function: it runs synchronously from one exchange call to the next, and *)
(* feed handlers run only while it is suspended on a call (or idle).  The  *)
(* model therefore has one action per "response of the call in flight",    *)
(* which applies the response and runs the continuation up to the next     *)
(* call, plus one action per feed handler, the timer and the clock.        *)
(*                                                                         *)
(* Units: amounts are integer multiples of 1e-5 (so EPS = 1), prices are   *)
(* integer hundredths, time is in milliseconds.                            *)
(***************************************************************************)
EXTENDS Integers, Sequences, FiniteSets, TLC

\* ---------------------------------------------------------------- bounds
\* cap of the consecutive429 counter
Max429 == 2
\* largest number of orders in one orders-feed delivery
MaxOpen == 2

\* ------------------------------------------------------ program constants
EPS == 1
PostCloseCooldownMs == 10000
ImbalanceExitRatio == 6
DepthSkipRatio == 3
\* configuration (MakerConfig)
RefreshIntervalMs == 5000
PriceTick == 10
QtyStep == 100
TradeAmount == 200
VolumeBoost == 1
BidOffset == 0
AskOffset == 0
LossLimit == 4000
MinRepriceTicks == 1
\* rate-limit controller: backoff cap
MaxBackoffMs == 60000
\* order coordinator: lock deadline in refresh intervals
LockDeadlineIntervals == 4

\* Date.now(): times are kept relative to the present, which is the origin
\* of the time axis; when time passes every stored time moves back
now == 0
\* one passage of time
ClockStepMs == 4 * RefreshIntervalMs
\* no time stored (a null stamp, no timer armed)
NoTime == -1

Null == [null |-> TRUE]
Sides == {"BUY", "SELL"}
Slots == {"LIMIT", "STOP", "MARKET"}
Outcomes == {"ok", "ratelimit", "insufficient"}

Abs(x) == IF x < 0 THEN -x ELSE x
Min(a, b) == IF a < b THEN a ELSE b
Max(a, b) == IF a > b THEN a ELSE b

RECURSIVE Pow2(_)
Pow2(n) == IF n <= 0 THEN 1 ELSE 2 * Pow2(n - 1)

\* ------------------------------------------------------------ input sets
\* a missing price (null top of book)
NoPrice == 0
FlatPosition == [positionAmt |-> 0, entryPrice |-> 0]
\* account snapshots (the position of the symbol): flat, long and short;
\* entryPrice 0 is an entry price not yet synchronised
LongPositions == {[positionAmt |-> 200, entryPrice |-> e] : e \in {0, 1000}}
ShortPositions == {[positionAmt |-> -200, entryPrice |-> e] : e \in {0, 1000}}

EmptyDepth == [bid |-> NoPrice, ask |-> NoPrice, buySum |-> 0, sellSum |-> 0]
\* depth snapshots: top of book and the top-10 size sums of each side
BalancedDepth == [bid |-> 1000, ask |-> 1010, buySum |-> 1, sellSum |-> 1]
\* a quote at which a position of 200 entered at 1000 has lost LossLimit
FallenDepth == [bid |-> 980, ask |-> 990, buySum |-> 1, sellSum |-> 1]
RisenDepth == [bid |-> 1030, ask |-> 1040, buySum |-> 1, sellSum |-> 1]
\* books that are 7x one-sided
SellHeavyDepth == [bid |-> 1000, ask |-> 1010, buySum |-> 1, sellSum |-> 7]
BuyHeavyDepth == [bid |-> 1000, ask |-> 1010, buySum |-> 7, sellSum |-> 1]
\* books that are exactly 6x one-sided
SixfoldSellDepth == [bid |-> 1000, ask |-> 1010, buySum |-> 1, sellSum |-> 6]
SixfoldBuyDepth == [bid |-> 1000, ask |-> 1010, buySum |-> 6, sellSum |-> 1]

\* orders the exchange can report; the id is fixed by (side, type, reduceOnly)
OrderId(side, type, ro) ==
  IF type = "LIMIT"
  THEN (IF ro THEN (IF side = "SELL" THEN 3 ELSE 4) ELSE (IF side = "BUY" THEN 1 ELSE 2))
  ELSE IF type = "STOP" THEN (IF side = "SELL" THEN 5 ELSE 6)
  ELSE 7
MkOrder(side, type, ro, price, stop) ==
  [orderId |-> OrderId(side, type, ro), side |-> side, type |-> type,
   reduceOnly |-> ro, price |-> price, stopPrice |-> stop,
   origQty |-> 200, status |-> "NEW"]
\* the two entry quotes, the reduce-only closes and the stops
BuyEntry == MkOrder("BUY", "LIMIT", FALSE, 1000, 0)
SellEntry == MkOrder("SELL", "LIMIT", FALSE, 1010, 0)
SellClose == MkOrder("SELL", "LIMIT", TRUE, 1010, 0)
BuyClose == MkOrder("BUY", "LIMIT", TRUE, 1000, 0)
SellStop == MkOrder("SELL", "STOP", TRUE, 960, 960)
BuyStop == MkOrder("BUY", "STOP", TRUE, 1050, 1050)
\* the pre-emptive SELL stop of an earlier entry at the ask 1010, which
\* rests above the bid
SellStopAtAsk == [SellStop EXCEPT !.orderId = 8, !.price = 1010, !.stopPrice = 1010]
\* a resting SELL entry that is partly filled
SellEntryPartial == [SellEntry EXCEPT !.status = "PARTIALLY_FILLED"]
\* the order snapshots of a feed that reports orders of the set U
OrderSnapshots(U) == {X \in SUBSET U : Cardinality(X) <= MaxOpen}

\* The environment of a run: what the feeds deliver, how the exchange
\* answers besides "ok" (storm: every call is answered with a rate-limit
\* error), whether the ticker feed delivers and whether time passes.
Environment(positions, depths, orders, faults, storm, ticker, clock) ==
  [positions |-> positions, depths |-> depths, orders |-> orders, faults |-> faults,
   storm |-> storm, ticker |-> ticker, clock |-> clock]

\* --------------------------------------------------------- pure helpers
\* utils/strategy getPosition: the symbol's position, flat when no snapshot
getPosition(snapshot) == IF snapshot = Null THEN FlatPosition ELSE snapshot

\* utils/price getTopPrices: best bid and best ask, null when absent
getTopPrices(depth) ==
  IF depth = Null THEN [topBid |-> NoPrice, topAsk |-> NoPrice]
  ELSE [topBid |-> depth.bid, topAsk |-> depth.ask]

\* utils/depth computeDepthStats(depth, 10, 3): sums of the top levels and
\* the side to skip when the other side dominates by the ratio
computeDepthStats(depth) ==
  [buySum |-> depth.buySum, sellSum |-> depth.sellSum,
   skipBuySide |-> depth.sellSum >= DepthSkipRatio * depth.buySum,
   skipSellSide |-> depth.buySum >= DepthSkipRatio * depth.sellSum]

\* utils/math formatPriceToString(price, decimals) followed by Number():
\* prices are hundredths, so `decimals` decimals keep multiples of
\* 10^(2-decimals); toFixed rounds half away from zero
RoundTo(p, unit) == ((2 * p + unit) \div (2 * unit)) * unit
formatPriceToString(price, decimals) ==
  IF decimals >= 2 THEN price
  ELSE IF decimals = 1 THEN RoundTo(price, 10)
  ELSE RoundTo(price, 100)

\* Math.max(0, Math.floor(Math.log10(1 / priceTick))), priceTick in hundredths
priceDecimals(tick) ==
  IF tick <= 1 THEN 2 ELSE IF tick <= 10 THEN 1 ELSE 0

\* utils/pnl.ts computePositionPnl
computePositionPnl(position, bestBid, bestAsk) ==
  LET priceForPnl ==
        IF bestBid # NoPrice /\ bestAsk # NoPrice /\ bestBid = bestAsk THEN bestBid
        ELSE IF position.positionAmt > 0 THEN bestBid ELSE bestAsk
      absAmt == Abs(position.positionAmt)
  IN IF priceForPnl = NoPrice THEN 0
     ELSE IF position.positionAmt > 0
          THEN (priceForPnl - position.entryPrice) * absAmt
          ELSE (position.entryPrice - priceForPnl) * absAmt

\* utils/risk shouldStopLoss: the loss on the closing quote exceeds lossLimit
shouldStopLoss(position, bid, ask, lossLimit) ==
  computePositionPnl(position, bid, ask) <= -lossLimit

\* utils/strategy calcStopLossPrice: the price at which the loss is lossLimit
calcStopLossPrice(entryPrice, qty, direction, lossLimit) ==
  IF direction = "long" THEN entryPrice - (lossLimit \div qty)
  ELSE entryPrice + (lossLimit \div qty)

\* orders of a set in array order (ascending id)
RECURSIVE SortById(_)
SortById(S) ==
  IF S = {} THEN <<>>
  ELSE LET o == CHOOSE x \in S : \A y \in S : x.orderId <= y.orderId
       IN <<o>> \o SortById(S \ {o})

\* Array.prototype.find on the open orders
\* (the first, in array order, of the orders M that satisfy the test)
FindFirst(M) ==
  IF M = {} THEN Null ELSE CHOOSE x \in M : \A y \in M : x.orderId <= y.orderId

isStopLike(o) == o.stopPrice > 0 \/ o.type = "STOP"

\* ------------------------------------------------ rate-limit controller
\* core/lib/rate-limit RateLimitController (section 4.1)
RateLimitInit ==
  [consecutive429 |-> 0, pauseUntil |-> 0, lastHadRateLimit |-> FALSE,
   lastCycleAt |-> -RefreshIntervalMs]

backoff(n) == Min(2 * RefreshIntervalMs * Pow2(n - 1), MaxBackoffMs)

registerRateLimit(rl, t) ==
  LET n == Min(rl.consecutive429 + 1, Max429)
  IN [rl EXCEPT !.consecutive429 = n, !.pauseUntil = t + backoff(n)]

beforeCycle(rl, t) ==
  IF t < rl.pauseUntil THEN "paused"
  ELSE IF rl.lastHadRateLimit /\ t - rl.lastCycleAt < RefreshIntervalMs THEN "skip"
  ELSE "run"

onCycleComplete(rl, hadRateLimit, t) ==
  [rl EXCEPT !.lastHadRateLimit = hadRateLimit,
             !.lastCycleAt = IF hadRateLimit THEN t ELSE -RefreshIntervalMs,
             !.consecutive429 = IF hadRateLimit THEN @ ELSE Max(0, @ - 1)]

shouldBlockEntries(rl) == rl.consecutive429 >= 1

\* --------------------------------------------------- order coordinator
\* core/order-coordinator unlockOperating
unlockOperating(s, type) ==
  [s EXCEPT !.locks[type] = FALSE, !.timers[type] = NoTime, !.pending[type] = 0]

\* core/order-coordinator lockOperating: take the slot, arm its deadline
lockOperating(s, type) ==
  [s EXCEPT !.locks[type] = TRUE,
            !.timers[type] = now + LockDeadlineIntervals * RefreshIntervalMs]

\* core/lib/order-plan makeOrderPlan (section 4.3): each desired order
\* consumes at most one open order of its key within a quantity step
planKey(o) == <<o.side, RoundTo(o.price, PriceTick), o.reduceOnly>>
RECURSIVE matchPlan(_, _, _)
matchPlan(open, desired, toPlace) ==
  IF desired = <<>> THEN [toCancel |-> SortById(open), toPlace |-> toPlace]
  ELSE LET d == Head(desired)
           m == FindFirst({o \in open :
                  /\ planKey(o) = <<d.side, RoundTo(d.price, PriceTick), d.reduceOnly>>
                  /\ Abs(o.origQty - d.amount) <= QtyStep})
       IN IF m = Null THEN matchPlan(open, Tail(desired), Append(toPlace, d))
          ELSE matchPlan(open \ {m}, Tail(desired), toPlace)
makeOrderPlan(open, desired) == matchPlan(open, desired, <<>>)


\* ------------------------------------- core/lib/position-reconciler
\* hasClosingProtection(openOrders, closeSide)
hasClosingProtection(orders, closeSide) ==
  \E o \in orders :
    /\ o.side = closeSide
    /\ (o.reduceOnly \/ o.type = "STOP_MARKET" \/ o.stopPrice > 0)

\* buildClosePrice(side, prices, priceTick): NoPrice is its null
buildClosePrice(side, prices, priceTick) ==
  LET decimals == priceDecimals(priceTick)
  IN IF side = "SELL"
     THEN (IF prices.topAsk # NoPrice THEN formatPriceToString(prices.topAsk, decimals)
           ELSE IF prices.lastPrice # NoPrice
                THEN formatPriceToString(prices.lastPrice, decimals)
                ELSE NoPrice)
     ELSE (IF prices.topBid # NoPrice THEN formatPriceToString(prices.topBid, decimals)
           ELSE IF prices.lastPrice # NoPrice
                THEN formatPriceToString(prices.lastPrice, decimals)
                ELSE NoPrice)

\* reconcileOrphanedPosition without its test of a flat position
reconcileOrphanedPositionUnguarded(params, answer) ==
  LET position == params.position
      absPos == Abs(position.positionAmt)
      closeSide == IF position.positionAmt > 0 THEN "SELL" ELSE "BUY"
      price == buildClosePrice(closeSide, params.prices, PriceTick)
      order == [type |-> "LIMIT", side |-> closeSide, price |-> price,
                amount |-> absPos, reduceOnly |-> TRUE,
                timeInForce |-> IF params.ioc \/ params.strictLimitOnly
                                THEN "IOC" ELSE "GTC"]
  IN IF hasClosingProtection(params.openOrders, closeSide)
     THEN [tookAction |-> FALSE, order |-> Null]
     ELSE IF price = NoPrice THEN [tookAction |-> FALSE, order |-> Null]
     ELSE IF params.locked THEN [tookAction |-> TRUE, order |-> Null]
     ELSE [tookAction |-> answer = "ok", order |-> order]

\* reconcileOrphanedPosition(params): its result and the order it has sent
\* to the exchange, which answers the createOrder with answer.  placeOrder
\* of the coordinator returns without placing when the LIMIT slot is locked
\* (section 4.2) and throws the error of the exchange.
reconcileOrphanedPosition(params, answer) ==
  LET position == params.position
      absPos == Abs(position.positionAmt)
      closeSide == IF position.positionAmt > 0 THEN "SELL" ELSE "BUY"
      price == buildClosePrice(closeSide, params.prices, PriceTick)
      order == [type |-> "LIMIT", side |-> closeSide, price |-> price,
                amount |-> absPos, reduceOnly |-> TRUE,
                timeInForce |-> IF params.ioc \/ params.strictLimitOnly
                                THEN "IOC" ELSE "GTC"]
  IN IF absPos < EPS THEN [tookAction |-> FALSE, order |-> Null]
     ELSE IF hasClosingProtection(params.openOrders, closeSide)
     THEN [tookAction |-> FALSE, order |-> Null]
     ELSE IF price = NoPrice THEN [tookAction |-> FALSE, order |-> Null]
     ELSE IF params.locked THEN [tookAction |-> TRUE, order |-> Null]
     ELSE [tookAction |-> answer = "ok", order |-> order]


\* ------------------------------------------------------------- state
VARIABLES
  accountSnapshot, depthSnapshot, tickerSnapshot, openOrders,
  locks, timers, pending, pendingCancelOrders,
  processing, desiredOrders,
  initialOrderSnapshotReady, initialOrderResetDone,
  postCloseCooldownUntil, lastAbsPositionForCooldown, lastEntryOrderBySide,
  rateLimit,
  pc,            \* where tick() is suspended ("idle": no tick is executing)
  loc,           \* the locals of the executing tick
  hadRateLimit,  \* tick(): let hadRateLimit
  call,          \* the exchange call in flight
  env,           \* the environment of the run (never changes)
  bodies,        \* number of tick bodies past the processing guard
  timer,         \* this.timer is set: start() has armed the interval
  rejected,      \* the promise of the last tick() body was rejected
  exchange,      \* the orders resting at the exchange, where the run tracks them
  pricing,       \* a derivation of desiredOrders under a priceTick, and its result
  reconciliation \* the last call of reconcileOrphanedPosition and its result

vars ==
  <<accountSnapshot, depthSnapshot, tickerSnapshot, openOrders,
    locks, timers, pending, pendingCancelOrders, processing, desiredOrders,
    initialOrderSnapshotReady, initialOrderResetDone,
    postCloseCooldownUntil, lastAbsPositionForCooldown, lastEntryOrderBySide,
    rateLimit, pc, loc, hadRateLimit, call, env, bodies, timer, rejected,
    exchange, pricing, reconciliation>>

\* the variables the feeds, the coordinator and the exchange calls act on
orderVars == <<openOrders, locks, timers, pending, pendingCancelOrders>>

NoCall ==
  [op |-> "none", type |-> "", side |-> "", reduceOnly |-> FALSE, orderId |-> 0, price |-> 0]
CancelCall(id) ==
  [op |-> "cancelOrder", type |-> "", side |-> "", reduceOnly |-> FALSE, orderId |-> id, price |-> 0]
CancelAllCall ==
  [op |-> "cancelAllOrders", type |-> "", side |-> "", reduceOnly |-> FALSE, orderId |-> 0, price |-> 0]
CreateCall(type, side, ro, price) ==
  [op |-> "createOrder", type |-> type, side |-> side, reduceOnly |-> ro,
   orderId |-> OrderId(side, type, ro), price |-> price]

LocInit ==
  [position |-> FlatPosition, closeBid |-> NoPrice, closeAsk |-> NoPrice,
   queue |-> <<>>, place |-> <<>>, ctx |-> "", cur |-> Null, target |-> Null]

\* the state as one record, so that a handler is a function of it
S ==
  [accountSnapshot |-> accountSnapshot, depthSnapshot |-> depthSnapshot,
   tickerSnapshot |-> tickerSnapshot, openOrders |-> openOrders,
   locks |-> locks, timers |-> timers, pending |-> pending,
   pendingCancelOrders |-> pendingCancelOrders, processing |-> processing,
   desiredOrders |-> desiredOrders,
   initialOrderSnapshotReady |-> initialOrderSnapshotReady,
   initialOrderResetDone |-> initialOrderResetDone,
   postCloseCooldownUntil |-> postCloseCooldownUntil,
   lastAbsPositionForCooldown |-> lastAbsPositionForCooldown,
   lastEntryOrderBySide |-> lastEntryOrderBySide,
   rateLimit |-> rateLimit, pc |-> pc, loc |-> loc, hadRateLimit |-> hadRateLimit,
   call |-> call, env |-> env, bodies |-> bodies, timer |-> timer,
   rejected |-> rejected, exchange |-> exchange, pricing |-> pricing,
   reconciliation |-> reconciliation]

Set(t) ==
  /\ accountSnapshot' = t.accountSnapshot
  /\ depthSnapshot' = t.depthSnapshot
  /\ tickerSnapshot' = t.tickerSnapshot
  /\ openOrders' = t.openOrders
  /\ locks' = t.locks
  /\ timers' = t.timers
  /\ pending' = t.pending
  /\ pendingCancelOrders' = t.pendingCancelOrders
  /\ processing' = t.processing
  /\ desiredOrders' = t.desiredOrders
  /\ initialOrderSnapshotReady' = t.initialOrderSnapshotReady
  /\ initialOrderResetDone' = t.initialOrderResetDone
  /\ postCloseCooldownUntil' = t.postCloseCooldownUntil
  /\ lastAbsPositionForCooldown' = t.lastAbsPositionForCooldown
  /\ lastEntryOrderBySide' = t.lastEntryOrderBySide
  /\ rateLimit' = t.rateLimit
  /\ pc' = t.pc
  /\ loc' = t.loc
  /\ hadRateLimit' = t.hadRateLimit
  /\ call' = t.call
  /\ env' = t.env
  /\ bodies' = t.bodies
  /\ timer' = t.timer
  /\ rejected' = t.rejected
  /\ pricing' = t.pricing
  /\ exchange' = t.exchange
  /\ reconciliation' = t.reconciliation

\* the engine after construction and start(), in the environment e
InitEngine(e) ==
  /\ env = e
  /\ accountSnapshot = Null
  /\ depthSnapshot = Null
  /\ tickerSnapshot = FALSE
  /\ openOrders = {}
  /\ locks = [x \in Slots |-> FALSE]
  /\ timers = [x \in Slots |-> NoTime]
  /\ pending = [x \in Slots |-> 0]
  /\ pendingCancelOrders = {}
  /\ processing = FALSE
  /\ desiredOrders = <<>>
  /\ initialOrderSnapshotReady = FALSE
  /\ initialOrderResetDone = FALSE
  /\ postCloseCooldownUntil = 0
  /\ lastAbsPositionForCooldown = 0
  /\ lastEntryOrderBySide = [x \in Sides |-> NoTime]
  /\ rateLimit = RateLimitInit
  /\ pc = "idle"
  /\ loc = LocInit
  /\ hadRateLimit = FALSE
  /\ call = NoCall
  /\ bodies = 0
  /\ timer = TRUE
  /\ rejected = FALSE
  /\ exchange = {}

\* the state after construction: the reconciler has not been called
InitIn(e) == InitEngine(e) /\ reconciliation = Null /\ pricing = Null

\* suspend the tick on an exchange call
Await(s, at, c) == [s EXCEPT !.pc = at, !.call = c]


\* ------------------------------------------------- tick(): end of body
\* finally { rateLimit.onCycleComplete(hadRateLimit); processing = false }
\* (desiredOrders is read by buildSnapshot only; the model keeps it for the
\* tick that derived it)
Finally(s) ==
  [s EXCEPT !.rateLimit = onCycleComplete(s.rateLimit, s.hadRateLimit, now),
            !.processing = FALSE, !.pc = "idle", !.loc = LocInit, !.call = NoCall,
            !.hadRateLimit = FALSE, !.bodies = @ - 1,
            !.desiredOrders = <<>>, !.rejected = FALSE]

\* an error thrown inside catch { ... } of a tick() without a finally block
RejectsWithoutFinally(s) ==
  [s EXCEPT !.pc = "idle", !.loc = LocInit, !.call = NoCall, !.rejected = TRUE]

\* an error thrown inside catch { ... } of tick(): the finally block runs
\* and the promise that `void this.tick()` dropped is rejected
Rejects(s) == [Finally(s) EXCEPT !.rejected = TRUE]

hasEntryPrice(position) == Abs(position.entryPrice) > 0
closeSideOf(position) == IF position.positionAmt > 0 THEN "SELL" ELSE "BUY"
removeOrder(s, id) ==
  [s EXCEPT !.openOrders = {o \in @ : o.orderId # id}]
forgetCancel(s, id) ==
  removeOrder([s EXCEPT !.pendingCancelOrders = @ \ {id}], id)
pop(s) == [s EXCEPT !.loc.queue = Tail(@)]

\* core/order-coordinator marketClose: a reduce-only MARKET order on the
\* MARKET slot; returns without placing when the slot is locked.  Every
\* caller ends the tick body after it.
marketClose(s) ==
  IF s.locks["MARKET"] THEN Finally(s)
  ELSE Await(lockOperating(s, "MARKET"), "mclose",
             CreateCall("MARKET", closeSideOf(s.loc.position), TRUE, NoPrice))

\* flushOrders(): cancel every open order not already pending cancel; the
\* loop runs over the array that was current when it started
RECURSIVE flushLoop(_)
flushLoop(s) ==
  IF s.loc.queue = <<>> THEN marketClose(s)
  ELSE LET o == Head(s.loc.queue)
       IN IF o.orderId \in s.pendingCancelOrders THEN flushLoop(pop(s))
          ELSE Await([s EXCEPT !.pendingCancelOrders = @ \cup {o.orderId}],
                     "flush", CancelCall(o.orderId))
\* flushOrders() that cancels nothing before the market close
flushOrdersNoCancel(s, ctx) == marketClose([s EXCEPT !.loc.ctx = ctx])
flushOrders(s, ctx) ==
  flushLoop([s EXCEPT !.loc.queue = SortById(s.openOrders), !.loc.ctx = ctx])

\* checkRisk(position, bid, ask)
checkRisk(s) ==
  LET position == s.loc.position
  IN IF Abs(position.positionAmt) < EPS THEN Finally(s)
     ELSE IF ~hasEntryPrice(position) THEN Finally(s)
     ELSE IF shouldStopLoss(position, s.loc.closeBid, s.loc.closeAsk, LossLimit)
          THEN flushOrders(s, "risk")
          ELSE Finally(s)

\* findCurrentStop(stopSide)
findCurrentStop(s, stopSide) ==
  FindFirst({o \in s.openOrders :
     /\ o.side = stopSide
     /\ (o.type \in {"STOP_MARKET", "TRAILING_STOP_MARKET"} \/ o.stopPrice > 0)})

\* placeStopLossOrder of the coordinator on the STOP slot: the call, or
\* nothing when the slot is locked
stopCall(side, stopPrice) == CreateCall("STOP", side, TRUE, stopPrice)

\* replaceStopExact after its cancel: place the stop at the quote
replaceStopExactPlace(s) ==
  LET side == closeSideOf(s.loc.position)
      lastPrice == IF side = "SELL" THEN s.loc.closeBid ELSE s.loc.closeAsk
  IN IF s.locks["STOP"] THEN checkRisk([s EXCEPT !.loc.cur = Null])
     ELSE Await(lockOperating(s, "STOP"), "exPlace",
                stopCall(side, formatPriceToString(lastPrice, priceDecimals(PriceTick))))

\* refreshStopToQuoteIfOpen(position, closeBidPrice, closeAskPrice)
refreshStopToQuoteIfOpen(s) ==
  LET position == s.loc.position
      stopSide == closeSideOf(position)
      current == findCurrentStop(s, stopSide)
      lastPrice == IF stopSide = "SELL" THEN s.loc.closeBid ELSE s.loc.closeAsk
      desired == formatPriceToString(lastPrice, priceDecimals(PriceTick))
      invalidForSide == \/ stopSide = "SELL" /\ desired > lastPrice
                        \/ stopSide = "BUY" /\ desired < lastPrice
  IN IF Abs(position.positionAmt) < EPS THEN checkRisk(s)
     ELSE IF ~hasEntryPrice(position) THEN checkRisk(s)
     ELSE IF current = Null THEN checkRisk(s)
     ELSE IF Abs(desired - current.stopPrice) < PriceTick THEN checkRisk(s)
     ELSE IF invalidForSide THEN checkRisk(s)
     ELSE Await([s EXCEPT !.loc.cur = current], "exCancel", CancelCall(current.orderId))

rawStopOf(position) ==
  calcStopLossPrice(position.entryPrice, Abs(position.positionAmt),
                    IF position.positionAmt > 0 THEN "long" ELSE "short", LossLimit)
closeSidePx(s) ==
  IF s.loc.position.positionAmt > 0 THEN s.loc.closeBid ELSE s.loc.closeAsk

\* tryReplaceStop after its cancel: place the new stop
tryReplaceStopPlace(s) ==
  IF s.locks["STOP"] THEN refreshStopToQuoteIfOpen([s EXCEPT !.loc.cur = Null])
  ELSE Await(lockOperating(s, "STOP"), "repPlace",
             stopCall(closeSideOf(s.loc.position), rawStopOf(s.loc.position)))

\* tryReplaceStop, catch of the new placement: restore the previous stop
tryReplaceStopRestore(s) ==
  LET side == closeSideOf(s.loc.position)
      lastPrice == closeSidePx(s)
      existingStopPrice == s.loc.cur.stopPrice
      restoreInvalid == \/ side = "SELL" /\ existingStopPrice >= lastPrice
                        \/ side = "BUY" /\ existingStopPrice <= lastPrice
  IN IF restoreInvalid \/ s.locks["STOP"]
     THEN refreshStopToQuoteIfOpen([s EXCEPT !.loc.cur = Null])
     ELSE Await(lockOperating(s, "STOP"), "repRestore", stopCall(side, existingStopPrice))

\* ensureProtectiveStop that does not test the stop price against lastPrice
ensureProtectiveStopUnchecked(s) ==
  LET position == s.loc.position
      stopSide == closeSideOf(position)
      rawStop == rawStopOf(position)
      current == findCurrentStop(s, stopSide)
  IN IF Abs(position.positionAmt) < EPS THEN refreshStopToQuoteIfOpen(s)
     ELSE IF ~hasEntryPrice(position) THEN refreshStopToQuoteIfOpen(s)
     ELSE IF current = Null
          THEN (IF s.locks["STOP"] THEN refreshStopToQuoteIfOpen(s)
                ELSE Await(lockOperating(s, "STOP"), "stopPlace", stopCall(stopSide, rawStop)))
     ELSE refreshStopToQuoteIfOpen(s)

\* ensureProtectiveStop(position, lastPrice)
ensureProtectiveStop(s) ==
  LET position == s.loc.position
      lastPrice == closeSidePx(s)
      stopSide == closeSideOf(position)
      rawStop == rawStopOf(position)
      current == findCurrentStop(s, stopSide)
      invalid == \/ stopSide = "SELL" /\ ~(rawStop <= lastPrice - PriceTick)
                 \/ stopSide = "BUY" /\ ~(rawStop >= lastPrice + PriceTick)
      canImprove == \/ stopSide = "SELL" /\ rawStop >= current.stopPrice + PriceTick
                    \/ stopSide = "BUY" /\ rawStop <= current.stopPrice - PriceTick
      invalidForSide == \/ stopSide = "SELL" /\ rawStop > lastPrice
                        \/ stopSide = "BUY" /\ rawStop < lastPrice
  IN IF Abs(position.positionAmt) < EPS THEN refreshStopToQuoteIfOpen(s)
     ELSE IF ~hasEntryPrice(position) THEN refreshStopToQuoteIfOpen(s)
     ELSE IF invalid THEN refreshStopToQuoteIfOpen(s)
     ELSE IF current = Null
          THEN (IF s.locks["STOP"] THEN refreshStopToQuoteIfOpen(s)
                ELSE Await(lockOperating(s, "STOP"), "stopPlace", stopCall(stopSide, rawStop)))
     ELSE IF canImprove /\ ~invalidForSide
          THEN Await([s EXCEPT !.loc.cur = current], "repCancel", CancelCall(current.orderId))
     ELSE refreshStopToQuoteIfOpen(s)


\* ---------------------------------------------------- tick(): syncOrders
bothOffsetsZero == BidOffset = 0 /\ AskOffset = 0
popTarget(s) == [s EXCEPT !.loc.place = Tail(@)]

\* the placement loop of syncOrders: placeOrder of the coordinator on the
\* LIMIT slot (returns without placing when the slot is locked), the
\* pre-emptive stop after a BUY entry, the dwell timestamp
RECURSIVE placeLoop(_)
recordEntry(s) ==
  LET target == Head(s.loc.place)
  IN placeLoop(popTarget(
       IF target.reduceOnly THEN s
       ELSE [s EXCEPT !.lastEntryOrderBySide[target.side] = now]))
afterPlaceOrder(s) ==
  LET target == Head(s.loc.place)
      topAsk == getTopPrices(s.depthSnapshot).topAsk
  IN IF ~target.reduceOnly /\ target.side = "BUY" /\ bothOffsetsZero /\ topAsk # NoPrice
     THEN (IF s.locks["STOP"] THEN recordEntry(s)
           ELSE Await(lockOperating(s, "STOP"), "prestop", stopCall("SELL", topAsk)))
     ELSE recordEntry(s)
placeLoop(s) ==
  IF s.loc.place = <<>> THEN ensureProtectiveStop(s)
  ELSE LET target == Head(s.loc.place)
       IN IF target.amount < EPS THEN placeLoop(popTarget(s))
          ELSE IF s.locks["LIMIT"] THEN afterPlaceOrder(s)
          ELSE Await(lockOperating(s, "LIMIT"), "place",
                     CreateCall("LIMIT", target.side, target.reduceOnly, target.price))

\* the cancel loop of syncOrders
RECURSIVE cancelLoop(_)
cancelLoop(s) ==
  IF s.loc.queue = <<>> THEN placeLoop(s)
  ELSE LET o == Head(s.loc.queue)
       IN IF o.orderId \in s.pendingCancelOrders THEN cancelLoop(pop(s))
          ELSE Await([s EXCEPT !.pendingCancelOrders = @ \cup {o.orderId}],
                     "cancel", CancelCall(o.orderId))

\* status.includes("CLOSED" | "FILLED" | "CANCELED")
statusExcluded(status) == status \in {"CLOSED", "FILLED", "PARTIALLY_FILLED", "CANCELED"}

repriceDwellMs == Max(1500, RefreshIntervalMs * 3)

\* reprice suppression of one target against the available orders
adjustTarget(s, available, t) ==
  LET existing == FindFirst({o \in available : o.side = t.side /\ ~o.reduceOnly})
      recentPlaced == s.lastEntryOrderBySide[t.side]
      withinDwell == recentPlaced # NoTime /\ now - recentPlaced < repriceDwellMs
  IN IF t.reduceOnly \/ existing = Null THEN t
     ELSE IF Abs(t.price - existing.price) < MinRepriceTicks * PriceTick \/ withinDwell
          THEN [side |-> t.side, price |-> existing.price, amount |-> t.amount,
                reduceOnly |-> FALSE]
          ELSE t

\* syncOrders, lines 482-522: the plan of the targets against the open orders
availableOrders(s) == {o \in s.openOrders : o.orderId \notin s.pendingCancelOrders}
syncPlan(s, targets) ==
  LET planOrders == {o \in availableOrders(s) :
                       ~statusExcluded(o.status) /\ ~(o.stopPrice > 0) /\ o.type # "STOP"}
      adjustedTargets == [i \in 1..Len(targets) |->
                            adjustTarget(s, availableOrders(s), targets[i])]
  IN makeOrderPlan(planOrders, adjustedTargets)

syncOrders(s, targets) ==
  LET plan == syncPlan(s, targets)
  IN cancelLoop([s EXCEPT !.loc.queue = plan.toCancel, !.loc.place = plan.toPlace])

\* ------------------------------------------- tick(): catch, rate limit
\* enforceRateLimitStop(): with a position, flush and market-close
enforceRateLimitStop(s) ==
  LET position == getPosition(s.accountSnapshot)
  IN IF Abs(position.positionAmt) < EPS THEN Finally(s)
     ELSE flushOrders([s EXCEPT !.loc.position = position], "rl")

\* catch (error) of tick() for a rate-limit error
tickCatchRateLimit(s) ==
  enforceRateLimitStop(
    [s EXCEPT !.hadRateLimit = TRUE, !.rateLimit = registerRateLimit(s.rateLimit, now)])

\* ------------------------------------------------ tick(): first half
\* desired quotes that keep quoting both sides beside the close
desiredQuotesWithEntries(s, position, skipBuySide, skipSellSide) ==
  LET top == getTopPrices(s.depthSnapshot)
      decimals == priceDecimals(PriceTick)
      amount == TradeAmount * Max(1, VolumeBoost)
      absPosition == Abs(position.positionAmt)
      closeSide == closeSideOf(position)
      entries ==
        <<[side |-> "BUY", price |-> formatPriceToString(top.topBid - BidOffset, decimals),
           amount |-> amount, reduceOnly |-> FALSE],
          [side |-> "SELL", price |-> formatPriceToString(top.topAsk + AskOffset, decimals),
           amount |-> amount, reduceOnly |-> FALSE]>>
  IN IF absPosition < EPS THEN entries
     ELSE <<[side |-> closeSide,
             price |-> IF closeSide = "SELL" THEN formatPriceToString(top.topAsk, decimals)
                       ELSE formatPriceToString(top.topBid, decimals),
             amount |-> absPosition, reduceOnly |-> TRUE]>> \o entries

\* desired quotes whose canEnter forgets the rate-limit controller
desiredQuotesUnblocked(s, position, skipBuySide, skipSellSide) ==
  LET top == getTopPrices(s.depthSnapshot)
      decimals == priceDecimals(PriceTick)
      closeBidPrice == formatPriceToString(top.topBid, decimals)
      closeAskPrice == formatPriceToString(top.topAsk, decimals)
      bidPrice == formatPriceToString(top.topBid - BidOffset, decimals)
      askPrice == formatPriceToString(top.topAsk + AskOffset, decimals)
      absPosition == Abs(position.positionAmt)
      canEnter == ~(now < s.postCloseCooldownUntil)
      amount == TradeAmount * Max(1, VolumeBoost)
      buy == IF ~skipBuySide /\ canEnter
             THEN <<[side |-> "BUY", price |-> bidPrice, amount |-> amount, reduceOnly |-> FALSE]>>
             ELSE <<>>
      sell == IF ~skipSellSide /\ canEnter
              THEN <<[side |-> "SELL", price |-> askPrice, amount |-> amount, reduceOnly |-> FALSE]>>
              ELSE <<>>
      closeSide == closeSideOf(position)
  IN IF absPosition < EPS THEN buy \o sell
     ELSE <<[side |-> closeSide,
             price |-> IF closeSide = "SELL" THEN closeAskPrice ELSE closeBidPrice,
             amount |-> absPosition, reduceOnly |-> TRUE]>>

\* desired quotes (lines 292-325) under a configuration's priceTick and
\* offsets
desiredQuotesAt(s, position, skipBuySide, skipSellSide, priceTick, bidOffset, askOffset) ==
  LET top == getTopPrices(s.depthSnapshot)
      decimals == priceDecimals(priceTick)
      closeBidPrice == formatPriceToString(top.topBid, decimals)
      closeAskPrice == formatPriceToString(top.topAsk, decimals)
      bidPrice == formatPriceToString(top.topBid - bidOffset, decimals)
      askPrice == formatPriceToString(top.topAsk + askOffset, decimals)
      absPosition == Abs(position.positionAmt)
      postCloseActive == now < s.postCloseCooldownUntil
      canEnter == ~shouldBlockEntries(s.rateLimit) /\ ~postCloseActive
      amount == TradeAmount * Max(1, VolumeBoost)
      buy == IF ~skipBuySide /\ canEnter
             THEN <<[side |-> "BUY", price |-> bidPrice, amount |-> amount, reduceOnly |-> FALSE]>>
             ELSE <<>>
      sell == IF ~skipSellSide /\ canEnter
              THEN <<[side |-> "SELL", price |-> askPrice, amount |-> amount, reduceOnly |-> FALSE]>>
              ELSE <<>>
      closeSide == closeSideOf(position)
  IN IF absPosition < EPS THEN buy \o sell
     ELSE <<[side |-> closeSide,
             price |-> IF closeSide = "SELL" THEN closeAskPrice ELSE closeBidPrice,
             amount |-> absPosition, reduceOnly |-> TRUE]>>

\* desired quotes (lines 292-325)
desiredQuotes(s, position, skipBuySide, skipSellSide) ==
  desiredQuotesAt(s, position, skipBuySide, skipSellSide, PriceTick, BidOffset, AskOffset)

\* lines 292-327: derive the quotes and reconcile
deriveAndSync(s, position, stats) ==
  LET top == getTopPrices(s.depthSnapshot)
      decimals == priceDecimals(PriceTick)
      desired == desiredQuotes(s, position, stats.skipBuySide, stats.skipSellSide)
  IN syncOrders(
       [s EXCEPT !.desiredOrders = desired,
                 !.loc.position = position,
                 !.loc.closeBid = formatPriceToString(top.topBid, decimals),
                 !.loc.closeAsk = formatPriceToString(top.topAsk, decimals)],
       desired)

\* handleImbalanceExit(position, buySum, sellSum): TRUE when it exits
imbalanceExitRequired(position, buySum, sellSum) ==
  /\ ~(Abs(position.positionAmt) < EPS)
  /\ \/ position.positionAmt > 0 /\ (buySum = 0 \/ buySum * ImbalanceExitRatio < sellSum)
     \/ position.positionAmt < 0 /\ (sellSum = 0 \/ sellSum * ImbalanceExitRatio < buySum)

\* tick() after the startup reset (lines 269-336)
tickBody(s) ==
  LET top == getTopPrices(s.depthSnapshot)
      stats == computeDepthStats(s.depthSnapshot)
      position == getPosition(s.accountSnapshot)
  IN IF top.topBid = NoPrice \/ top.topAsk = NoPrice THEN Finally(s)
     ELSE IF imbalanceExitRequired(position, stats.buySum, stats.sellSum)
          THEN flushOrders([s EXCEPT !.loc.position = position], "imb")
          ELSE deriveAndSync(s, position, stats)

\* ensureStartupOrderReset() that does not wait for the first orders snapshot
ensureStartupOrderResetEarly(s) ==
  IF s.initialOrderResetDone THEN tickBody(s)
  ELSE IF s.openOrders = {} THEN tickBody([s EXCEPT !.initialOrderResetDone = TRUE])
  ELSE Await(s, "reset", CancelAllCall)

\* ensureStartupOrderReset(): the part before its cancelAllOrders
ensureStartupOrderReset(s) ==
  IF s.initialOrderResetDone THEN tickBody(s)
  ELSE IF ~s.initialOrderSnapshotReady THEN Finally(s)
  ELSE IF s.openOrders = {} THEN tickBody([s EXCEPT !.initialOrderResetDone = TRUE])
  ELSE Await(s, "reset", CancelAllCall)

isReady(s) == s.accountSnapshot # Null /\ s.depthSnapshot # Null

\* tick() that does not ask the rate-limit controller
tickGatesUngated(s) ==
  IF ~isReady(s) THEN Finally(s) ELSE ensureStartupOrderReset(s)

\* the gates of tick() (lines 252-267)
tickGates(s) ==
  IF beforeCycle(s.rateLimit, now) # "run" THEN Finally(s)
  ELSE IF ~isReady(s) THEN Finally(s)
  ELSE ensureStartupOrderReset(s)

\* tick() past the processing guard (lines 249-250)
tickEntry(s) ==
  tickGates([s EXCEPT !.processing = TRUE, !.hadRateLimit = FALSE, !.bodies = @ + 1,
                      !.rejected = FALSE])

\* tick() without its processing guard
tickGuardUnguarded(s) == FALSE

\* if (this.processing) return;
tickGuard(s) == s.processing


\* --------------------------------------- responses of the exchange calls
CancelOutcomes == {"ok", "unknown", "ratelimit", "other"}
Answers(set) ==
  IF env.storm THEN {"ratelimit"} ELSE {o \in set : o = "ok" \/ o \in env.faults}

\* core/lib/orders safeCancelOrder: which of its three callbacks runs; a
\* rate-limit error is left to the caller (section 7)
safeCancelOrder(o) ==
  IF o = "ok" THEN "success"
  ELSE IF o = "unknown" THEN "unknown"
  ELSE IF o = "ratelimit" THEN "throw"
  ELSE "error"

\* the coordinator after createOrder: the order id becomes the slot's
\* pending id; on an error the slot is unlocked and the error is thrown
placed(s, slot, o) ==
  IF o = "ok" THEN [s EXCEPT !.pending[slot] = s.call.orderId]
  ELSE unlockOperating(s, slot)

\* ensureStartupOrderReset(): after cancelAllOrders (lines 400-418)
onReset(s, o) ==
  IF o = "ok"
  THEN tickBody([unlockOperating(s, "LIMIT") EXCEPT
                   !.pendingCancelOrders = {}, !.openOrders = {},
                   !.initialOrderResetDone = TRUE])
  ELSE IF o = "unknown"
  THEN tickBody([s EXCEPT !.initialOrderResetDone = TRUE, !.openOrders = {}])
  ELSE Finally(s)

\* flushOrders(): after one safeCancelOrder (lines 675-693)
onFlush(s, o) ==
  LET id == Head(s.loc.queue).orderId
      d == safeCancelOrder(o)
  IN IF d = "success" THEN flushLoop(pop(s))
     ELSE IF d = "throw" THEN (IF s.loc.ctx = "rl" THEN Rejects(s) ELSE Finally(s))
     ELSE flushLoop(pop(forgetCancel(s, id)))

\* after marketClose: its errors are caught by every caller
onMarketClose(s, o) == Finally(placed(s, "MARKET", o))

\* syncOrders: after one safeCancelOrder (lines 527-549)
onCancel(s, o) ==
  LET id == Head(s.loc.queue).orderId
      d == safeCancelOrder(o)
  IN IF d = "success" THEN cancelLoop(pop(s))
     ELSE IF d = "throw" THEN tickCatchRateLimit(s)
     ELSE cancelLoop(pop(forgetCancel(s, id)))

\* syncOrders: after placeOrder (lines 556-616)
onPlace(s, o) ==
  LET s1 == placed(s, "LIMIT", o)
  IN IF o = "ok" THEN afterPlaceOrder(s1) ELSE placeLoop(popTarget(s1))

\* syncOrders: after the pre-emptive placeStopLossOrder (lines 590-607)
onPreStop(s, o) == recordEntry(placed(s, "STOP", o))

\* tryPlaceStopLoss: after placeStopLossOrder
onStopPlace(s, o) == refreshStopToQuoteIfOpen(placed(s, "STOP", o))

\* tryReplaceStop: after the cancel of the current stop (lines 773-781)
onReplaceCancel(s, o) ==
  tryReplaceStopPlace(IF o = "unknown" THEN removeOrder(s, s.loc.cur.orderId) ELSE s)

\* tryReplaceStop: after the placement of the new stop (lines 783-839)
onReplacePlace(s, o) ==
  IF o = "ok" THEN refreshStopToQuoteIfOpen([placed(s, "STOP", o) EXCEPT !.loc.cur = Null])
  ELSE tryReplaceStopRestore(placed(s, "STOP", o))

\* tryReplaceStop: after the placement of the previous stop
onReplaceRestore(s, o) ==
  refreshStopToQuoteIfOpen([placed(s, "STOP", o) EXCEPT !.loc.cur = Null])

\* replaceStopExact: after the cancel of the current stop (lines 871-880)
onExactCancel(s, o) ==
  replaceStopExactPlace(IF o = "unknown" THEN removeOrder(s, s.loc.cur.orderId) ELSE s)

\* replaceStopExact: after the placement (lines 881-908)
onExactPlace(s, o) == checkRisk([placed(s, "STOP", o) EXCEPT !.loc.cur = Null])

\* ------------------------------------------------------- feed handlers
\* watchAccount callback (lines 143-161)
accountHandler(s, snapshot) ==
  LET position == getPosition(snapshot)
      absNow == Abs(position.positionAmt)
      wasExposed == s.lastAbsPositionForCooldown > EPS
  IN [s EXCEPT !.accountSnapshot = snapshot,
               !.postCloseCooldownUntil =
                  IF wasExposed /\ absNow <= EPS THEN now + PostCloseCooldownMs ELSE @,
               !.lastAbsPositionForCooldown = absNow]

\* syncLocksWithOrders(orders)
syncLocksWithOrders(s, orders) ==
  LET release(type) ==
        /\ s.pending[type] # 0
        /\ LET match == FindFirst({o \in orders : o.orderId = s.pending[type]})
           IN match = Null \/ match.status \notin {"NEW", "PARTIALLY_FILLED"}
  IN [s EXCEPT !.locks = [x \in Slots |-> IF release(x) THEN FALSE ELSE s.locks[x]],
               !.timers = [x \in Slots |-> IF release(x) THEN NoTime ELSE s.timers[x]],
               !.pending = [x \in Slots |-> IF release(x) THEN 0 ELSE s.pending[x]]]

\* a watchOrders callback that cancels what it does not know
ordersHandlerCancelling(s, orders) ==
  LET mine == {o \in orders : o.type # "MARKET"}
  IN [syncLocksWithOrders(s, orders) EXCEPT
        !.openOrders = mine,
        !.pendingCancelOrders = {id \in @ : \E o \in mine : o.orderId = id},
        !.initialOrderSnapshotReady = TRUE,
        !.call = IF mine # {} /\ s.call.op = "none" THEN CancelAllCall ELSE @]

\* watchOrders callback (lines 171-184)
ordersHandler(s, orders) ==
  LET mine == {o \in orders : o.type # "MARKET"}
  IN [syncLocksWithOrders(s, orders) EXCEPT
        !.openOrders = mine,
        !.pendingCancelOrders = {id \in @ : \E o \in mine : o.orderId = id},
        !.initialOrderSnapshotReady = TRUE]

\* watchDepth callback (lines 194-197)
depthHandler(s, depth) == [s EXCEPT !.depthSnapshot = depth]

\* watchTicker callback (lines 207-210)
tickerHandler(s) == [s EXCEPT !.tickerSnapshot = TRUE]

\* ------------------------------------------------------------ actions
\* the interval timer of start() fires tick()
TimerFire ==
  /\ timer
  /\ IF tickGuard(S) THEN UNCHANGED vars ELSE Set(tickEntry(S))

ResetReturns == pc = "reset" /\ \E o \in Answers(CancelOutcomes) : Set(onReset(S, o))
FlushReturns == pc = "flush" /\ \E o \in Answers(CancelOutcomes) : Set(onFlush(S, o))
MarketCloseReturns == pc = "mclose" /\ \E o \in Answers(Outcomes) : Set(onMarketClose(S, o))
CancelReturns == pc = "cancel" /\ \E o \in Answers(CancelOutcomes) : Set(onCancel(S, o))
PlaceReturns == pc = "place" /\ \E o \in Answers(Outcomes) : Set(onPlace(S, o))
PreStopReturns == pc = "prestop" /\ \E o \in Answers(Outcomes) : Set(onPreStop(S, o))
StopPlaceReturns == pc = "stopPlace" /\ \E o \in Answers(Outcomes) : Set(onStopPlace(S, o))
ReplaceCancelReturns == pc = "repCancel" /\ \E o \in Answers(CancelOutcomes) : Set(onReplaceCancel(S, o))
ReplacePlaceReturns == pc = "repPlace" /\ \E o \in Answers(Outcomes) : Set(onReplacePlace(S, o))
ReplaceRestoreReturns == pc = "repRestore" /\ \E o \in Answers(Outcomes) : Set(onReplaceRestore(S, o))
ExactCancelReturns == pc = "exCancel" /\ \E o \in Answers(CancelOutcomes) : Set(onExactCancel(S, o))
ExactPlaceReturns == pc = "exPlace" /\ \E o \in Answers(Outcomes) : Set(onExactPlace(S, o))

AccountFeed == \E p \in env.positions : Set(accountHandler(S, p))
OrdersFeed == \E os \in OrderSnapshots(env.orders) : Set(ordersHandler(S, os))
DepthFeed == \E d \in env.depths : Set(depthHandler(S, d))
TickerFeed == env.ticker /\ Set(tickerHandler(S))

\* the coordinator's lock timer: releases the slot at its deadline
LockTimeout == \E x \in Slots :
  /\ locks[x] /\ timers[x] # NoTime /\ now >= timers[x]
  /\ Set(unlockOperating(S, x))

\* Time passes by ClockStepMs: every stored time moves back by as much.
\* The times are only ever compared with Date.now(), so that the deadlines
\* that have passed are all alike, and so are the stamps that are too old
\* to matter.
elapse(s) ==
  [s EXCEPT !.postCloseCooldownUntil = Max(now, @ - ClockStepMs),
            !.rateLimit.pauseUntil = Max(now, @ - ClockStepMs),
            !.rateLimit.lastCycleAt = Max(now - RefreshIntervalMs, @ - ClockStepMs),
            !.timers = [x \in Slots |->
               IF @[x] = NoTime THEN NoTime ELSE Max(now, @[x] - ClockStepMs)],
            !.lastEntryOrderBySide = [x \in Sides |->
               IF @[x] = NoTime \/ now - (@[x] - ClockStepMs) >= repriceDwellMs
               THEN NoTime ELSE @[x] - ClockStepMs]]

Advance == env.clock /\ Set(elapse(S))

\* start() (lines 112-117) and stop() (lines 119-124)
start(s) == [s EXCEPT !.timer = TRUE]
stop(s) == [s EXCEPT !.timer = FALSE]
Start == Set(start(S))
Stop == Set(stop(S))

\* the exchange answers the call in flight
Responses ==
  \/ ResetReturns
  \/ FlushReturns
  \/ MarketCloseReturns
  \/ CancelReturns
  \/ PlaceReturns
  \/ PreStopReturns
  \/ StopPlaceReturns
  \/ ReplaceCancelReturns
  \/ ReplacePlaceReturns
  \/ ReplaceRestoreReturns
  \/ ExactCancelReturns
  \/ ExactPlaceReturns

\* the engine: the interval timer and the continuations of its tick
Program == TimerFire \/ Responses

\* the account, orders and depth feeds
Feeds ==
  \/ AccountFeed
  \/ OrdersFeed
  \/ DepthFeed

Next ==
  \/ Program
  \/ Feeds
  \/ TickerFeed
  \/ LockTimeout
  \/ Advance

\* the whole environment
Positions == {FlatPosition} \cup LongPositions \cup ShortPositions
Depths == {EmptyDepth, BalancedDepth, FallenDepth, RisenDepth, SellHeavyDepth, BuyHeavyDepth}
Orders == {BuyEntry, SellEntry, SellClose, BuyClose, SellStop, BuyStop}
Faults == {"unknown", "ratelimit", "insufficient", "other"}
Init == \E storm \in BOOLEAN :
  InitIn(Environment(Positions, Depths, Orders, Faults, storm, TRUE, TRUE))
Spec == Init /\ [][Next]_vars

\* ------------------------------------------------ the runs that are checked
\* Each is the engine in a part of the environment; the feeds that deliver
\* nothing there and the clock that stands still there are left out of the
\* next-state relation.
LongPosition == [positionAmt |-> 200, entryPrice |-> 1000]

\* a long account on a falling or one-sided book, every kind of answer
InitCore ==
  InitIn(Environment({FlatPosition, LongPosition},
                     {BalancedDepth, FallenDepth, SellHeavyDepth},
                     {BuyEntry, SellStop}, Faults, FALSE, FALSE, FALSE))
NextCore == Program \/ Feeds
SpecCore == InitCore /\ [][NextCore]_vars

\* the start of the engine, with the ticker feed
InitStartup ==
  InitIn(Environment({FlatPosition, LongPosition}, {BalancedDepth},
                     {BuyEntry, SellStop}, {"ratelimit"}, FALSE, TRUE, FALSE))
NextStartup == Program \/ Feeds \/ TickerFeed
SpecStartup == InitStartup /\ [][NextStartup]_vars

\* time passes: pauses, cooldowns and lock deadlines expire
InitClock ==
  InitIn(Environment({FlatPosition, LongPosition}, {BalancedDepth},
                     {BuyEntry, SellStop}, {"ratelimit"}, FALSE, FALSE, TRUE))
NextClock == Program \/ Feeds \/ LockTimeout \/ Advance
SpecClock == InitClock /\ [][NextClock]_vars

\* an exchange that answers every call with a rate-limit error, or one
\* that does so now and then.  Every call in flight is answered.
InitStorm == \E storm \in BOOLEAN :
  InitIn(Environment({FlatPosition, LongPosition}, {BalancedDepth},
                     {BuyEntry, SellStop}, {"ratelimit"}, storm, FALSE, FALSE))
SpecStorm == InitStorm /\ [][NextCore]_vars /\ WF_vars(Responses)

\* positions of both directions on a balanced book, with resting orders of
\* both stop sides
ShortPosition == [positionAmt |-> -200, entryPrice |-> 1000]
InitSides ==
  InitIn(Environment({FlatPosition, LongPosition, ShortPosition}, {BalancedDepth},
                     {BuyEntry, SellStop, BuyStop}, {"ratelimit"}, FALSE, FALSE, FALSE))
SpecSides == InitSides /\ [][NextCore]_vars

\* positions of both directions on one-sided books, 7x and exactly 6x
InitImbalance ==
  InitIn(Environment({FlatPosition, LongPosition, ShortPosition},
                     {SellHeavyDepth, SixfoldSellDepth, BuyHeavyDepth, SixfoldBuyDepth},
                     {BuyEntry, SellStop}, {"ratelimit"}, FALSE, FALSE, FALSE))
SpecImbalance == InitImbalance /\ [][NextCore]_vars

\* a flat or long account on a book that moves away from the resting
\* quotes, one of them partly filled
InitReprice ==
  InitIn(Environment({FlatPosition, LongPosition}, {BalancedDepth, RisenDepth},
                     {BuyEntry, SellEntryPartial, SellStop}, {"ratelimit"},
                     FALSE, FALSE, FALSE))
SpecReprice == InitReprice /\ [][NextCore]_vars

\* positions of both directions, one with an entry price not yet
\* synchronised, on a book that stands or has fallen
InitStops ==
  InitIn(Environment({FlatPosition, ShortPosition} \cup LongPositions,
                     {BalancedDepth, FallenDepth}, {BuyEntry, SellStop},
                     {"ratelimit"}, FALSE, FALSE, FALSE))
SpecStops == InitStops /\ [][NextCore]_vars

\* a long account whose resting stop is looser than the computed one, or
\* rests above the bid
InitStaleStop ==
  InitIn(Environment({FlatPosition, LongPosition}, {BalancedDepth},
                     {BuyEntry, SellStop, SellStopAtAsk}, {"ratelimit"},
                     FALSE, FALSE, FALSE))
SpecStaleStop == InitStaleStop /\ [][NextCore]_vars

\* the environment e with the configuration's strictLimitOnly (section 6:
\* force IOC for the close), which the engine never reads
Configured(e, strictLimitOnly) == e @@ [strictLimitOnly |-> strictLimitOnly]
\* a long account on a book that falls to the loss limit, under either
\* setting of strictLimitOnly
InitRisk ==
  \E strictLimitOnly \in BOOLEAN :
    InitIn(Configured(Environment({FlatPosition, LongPosition},
                                  {BalancedDepth, FallenDepth},
                                  {BuyEntry, SellStop}, {"ratelimit"},
                                  FALSE, FALSE, FALSE),
                      strictLimitOnly))
SpecRisk == InitRisk /\ [][NextCore]_vars

\* the position reconciler on its own: every call of it over positions
\* (flat, of one EPS, long, short), order snapshots, prices that are there
\* or missing, the options and the state of the LIMIT slot
ReconcilePositions ==
  {FlatPosition, LongPosition, ShortPosition,
   [positionAmt |-> EPS, entryPrice |-> 1000], [positionAmt |-> -EPS, entryPrice |-> 1000]}
\* trailing stops as the exchange reports them: no stopPrice (they carry an
\* activation price and a callback rate), not marked reduce-only
TrailingSellStop ==
  [orderId |-> 9, side |-> "SELL", type |-> "TRAILING_STOP_MARKET", reduceOnly |-> FALSE,
   price |-> 0, stopPrice |-> 0, origQty |-> 200, status |-> "NEW"]
TrailingBuyStop ==
  [orderId |-> 10, side |-> "BUY", type |-> "TRAILING_STOP_MARKET", reduceOnly |-> FALSE,
   price |-> 0, stopPrice |-> 0, origQty |-> 200, status |-> "NEW"]
ReconcileOrders == Orders \cup {TrailingSellStop, TrailingBuyStop}
ReconcilePrices ==
  [topBid : {NoPrice, 1000}, topAsk : {NoPrice, 1010}, lastPrice : {NoPrice, 1004}]
ReconcileParams ==
  [position : ReconcilePositions, openOrders : OrderSnapshots(ReconcileOrders),
   prices : ReconcilePrices, strictLimitOnly : BOOLEAN, ioc : BOOLEAN,
   locked : BOOLEAN]
\* the call returns: the exchange has answered the createOrder, if one
\* was sent
Reconcile ==
  /\ reconciliation # Null
  /\ reconciliation.result = Null
  /\ \E answer \in {"ok", "other"} :
       Set([S EXCEPT !.reconciliation =
              [params |-> reconciliation.params, answer |-> answer,
               result |-> reconcileOrphanedPosition(reconciliation.params, answer),
               again |-> Null]])
\* the LIMIT slot of the lock map after a call: an order that was sent and
\* accepted holds it until the orders feed shows the order
lockedAfter(params, answer, result) ==
  params.locked \/ (result.order # Null /\ answer = "ok")
\* a second call with the same position, open orders and prices, on the
\* lock map the first call left behind
ReconcileAgain ==
  /\ reconciliation # Null
  /\ reconciliation.result # Null
  /\ reconciliation.again = Null
  /\ \E answer \in {"ok", "other"} :
       Set([S EXCEPT !.reconciliation.again =
              reconcileOrphanedPosition(
                [reconciliation.params EXCEPT !.locked =
                   lockedAfter(reconciliation.params, reconciliation.answer,
                               reconciliation.result)],
                answer)])
InitReconcile ==
  /\ InitEngine(Environment({FlatPosition}, {BalancedDepth}, {}, {}, FALSE, FALSE, FALSE))
  /\ reconciliation \in [params : ReconcileParams, answer : {""}, result : {Null},
                          again : {Null}]
  /\ pricing = Null
SpecReconcile == InitReconcile /\ [][Reconcile \/ ReconcileAgain]_vars

\* the derivation of desiredOrders on its own, over tick sizes (0.01, 0.03,
\* 0.1, 0.5 and 5, in hundredths), books whose prices are on the grid of
\* the tick, offsets of no or one tick, and flat, long and short accounts
PriceTicks == {1, 3, 10, 50, 500}
MaxGridStep == 2
MaxSpreadTicks == 2
gridPrice(priceTick, k) == priceTick * ((1000 \div priceTick) + k)
PricingInputs ==
  {[priceTick |-> priceTick, offset |-> offset, position |-> position,
    depth |-> [bid |-> gridPrice(priceTick, k), ask |-> gridPrice(priceTick, k + spread),
               buySum |-> 1, sellSum |-> 1]] :
     priceTick \in PriceTicks, offset \in {0, 1}, k \in 0..MaxGridStep,
     spread \in 1..MaxSpreadTicks,
     position \in {FlatPosition, LongPosition, ShortPosition}}
\* tick() derives desiredOrders from the depth snapshot
Derive ==
  /\ pricing # Null
  /\ pricing.result = Null
  /\ LET in == pricing.input
     IN Set([S EXCEPT !.pricing.result =
               [desiredOrders |->
                  desiredQuotesAt([S EXCEPT !.depthSnapshot = in.depth], in.position,
                                  FALSE, FALSE, in.priceTick,
                                  in.offset * in.priceTick, in.offset * in.priceTick)]])
InitPricing ==
  /\ InitEngine(Environment({FlatPosition}, {BalancedDepth}, {}, {}, FALSE, FALSE, FALSE))
  /\ reconciliation = Null
  /\ pricing \in [input : PricingInputs, result : {Null}]
SpecPricing == InitPricing /\ [][Derive]_vars

\* the engine with an exchange that applies what it is sent and an orders
\* feed that delivers what rests there, on a book and a position that stay
\* as they are
\* the continuation of the suspended tick on the answer o
answered(s, o) ==
  CASE s.pc = "reset" -> onReset(s, o)
    [] s.pc = "flush" -> onFlush(s, o)
    [] s.pc = "mclose" -> onMarketClose(s, o)
    [] s.pc = "cancel" -> onCancel(s, o)
    [] s.pc = "place" -> onPlace(s, o)
    [] s.pc = "prestop" -> onPreStop(s, o)
    [] s.pc = "stopPlace" -> onStopPlace(s, o)
    [] s.pc = "repCancel" -> onReplaceCancel(s, o)
    [] s.pc = "repPlace" -> onReplacePlace(s, o)
    [] s.pc = "repRestore" -> onReplaceRestore(s, o)
    [] s.pc = "exCancel" -> onExactCancel(s, o)
    [] s.pc = "exPlace" -> onExactPlace(s, o)
\* the book of resting orders after the exchange has applied the call c
applied(book, c) ==
  IF c.op = "cancelAllOrders" THEN {}
  ELSE IF c.op = "cancelOrder" THEN {o \in book : o.orderId # c.orderId}
  ELSE IF c.op = "createOrder" /\ c.type # "MARKET"
  THEN {o \in book : o.orderId # c.orderId}
         \cup {MkOrder(c.side, c.type, c.reduceOnly, c.price,
                        IF c.type = "STOP" THEN c.price ELSE 0)}
  ELSE book
\* the exchange applies the call in flight; a cancel of an order that does
\* not rest there is answered unknown-order
ExchangeApplies ==
  /\ pc # "idle"
  /\ LET o == IF call.op = "cancelOrder" /\ ~\E x \in exchange : x.orderId = call.orderId
              THEN "unknown" ELSE "ok"
     IN Set([answered(S, o) EXCEPT !.exchange = applied(exchange, call)])
\* the orders feed delivers the resting orders
ExchangeOrdersFeed == Set(ordersHandler(S, exchange))
InitStable ==
  \E position \in {FlatPosition, LongPosition, ShortPosition} :
    \E depth \in {BalancedDepth, RisenDepth} :
      InitIn(Environment({position}, {depth}, {}, {}, FALSE, FALSE, FALSE))
NextStable ==
  \/ TimerFire
  \/ ExchangeApplies
  \/ ExchangeOrdersFeed
  \/ AccountFeed
  \/ DepthFeed
\* every call in flight is answered and the orders feed delivers every
\* change of the resting orders
SpecStable ==
  /\ InitStable /\ [][NextStable]_vars
  /\ WF_vars(ExchangeApplies) /\ WF_vars(ExchangeOrdersFeed)

\* the engine that is stopped and started again while the feeds deliver
InitLifecycle ==
  InitIn(Environment({FlatPosition, LongPosition}, {BalancedDepth, FallenDepth},
                     {BuyEntry, SellStop}, {"ratelimit"}, FALSE, FALSE, FALSE))
NextLifecycle == Program \/ Feeds \/ Start \/ Stop
SpecLifecycle == InitLifecycle /\ [][NextLifecycle]_vars

\* the exchange and its orders feed as above, under a position that stays
\* open in one direction while the book moves in its favour and back
InitTrail ==
  \/ InitIn(Environment({LongPosition}, {BalancedDepth, RisenDepth}, {}, {},
                        FALSE, FALSE, FALSE))
  \/ InitIn(Environment({ShortPosition}, {BalancedDepth, FallenDepth}, {}, {},
                        FALSE, FALSE, FALSE))
SpecTrail ==
  /\ InitTrail /\ [][NextStable]_vars
  /\ WF_vars(ExchangeApplies) /\ WF_vars(ExchangeOrdersFeed)

\* the exchange may also refuse a cancel with a transport error, and time
\* passes: the coordinator's lock deadlines expire
ExchangeRefuses ==
  /\ pc # "idle" /\ call.op = "cancelOrder"
  /\ Set(answered(S, "other"))
InitRefusing ==
  \E position \in {LongPosition, ShortPosition} :
    InitIn(Environment({position}, {BalancedDepth}, {}, {"other"}, FALSE, FALSE, TRUE))
NextRefusing == NextStable \/ ExchangeRefuses \/ LockTimeout \/ Advance
SpecRefusing == InitRefusing /\ [][NextRefusing]_vars

\* an account whose position is flat, open, or of exactly EPS
DustPosition == [positionAmt |-> EPS, entryPrice |-> 1000]
InitDust ==
  InitIn(Environment({FlatPosition, LongPosition, DustPosition},
                     {BalancedDepth, FallenDepth}, {BuyEntry, SellStop},
                     {"ratelimit"}, FALSE, FALSE, FALSE))
SpecDust == InitDust /\ [][NextCore]_vars

\* the paths of a tick: a long account with a resting stop on a book that
\* is missing, balanced or one-sided, a flat account whose resting entry is
\* away from the book, or a long account with a resting entry; calls fail
\* with a rate-limit or another error, and every call in flight is answered
InitPaths ==
  \/ InitIn(Environment({LongPosition}, {EmptyDepth, BalancedDepth, SellHeavyDepth},
                        {SellStop}, {"ratelimit", "other"}, FALSE, FALSE, FALSE))
  \/ InitIn(Environment({FlatPosition}, {FallenDepth}, {BuyEntry},
                        {"ratelimit", "other"}, FALSE, FALSE, FALSE))
  \/ InitIn(Environment({LongPosition}, {BalancedDepth}, {BuyEntry},
                        {"ratelimit"}, FALSE, FALSE, FALSE))
SpecPaths == InitPaths /\ [][NextCore]_vars /\ WF_vars(Responses)

\* -------------------------------------------------------- properties
\* a non-flat position with no cancel pending for an order of its closing
\* side has a reduce-only or stop-like order there, or a market close that
\* the exchange has accepted, or a tick is at work
covered(s) ==
  LET position == getPosition(s.accountSnapshot)
      closing == {o \in s.openOrders : o.side = closeSideOf(position)}
  IN (/\ Abs(position.positionAmt) >= EPS
      /\ ~\E o \in closing : o.orderId \in s.pendingCancelOrders)
     => \/ \E o \in closing : o.reduceOnly \/ isStopLike(o)
        \/ s.locks["MARKET"]
        \/ s.processing

\* C1: no naked position.  When a tick ends on the answer to its
\* marketClose (after checkRisk, handleImbalanceExit or
\* enforceRateLimitStop flushed the orders) or on the answer to the stop
\* placement of replaceStopExact, a non-flat position with no cancel
\* pending on its closing side has a reduce-only or stop-like order there.
C1_NoNakedPosition ==
  [][(pc \in {"mclose", "exPlace"} /\ pc' = "idle") => covered(S')]_vars

\* C2: ticks never overlap.  At most one tick body is executing, and a
\* timer firing while a tick has not completed changes nothing: no call of
\* the rate-limit controller, no state change, no exchange operation.
C2_TicksNeverOverlap ==
  [][/\ bodies' <= 1
     /\ processing' <=> bodies' = 1
     /\ (TimerFire /\ processing) => UNCHANGED vars]_vars
\* a tick is suspended on an exchange call, where the timer can fire again
C2_Witness == bodies = 1 /\ processing /\ call.op # "none"

\* C3: feed handlers issue no exchange operation.  A step of the account,
\* orders, depth or ticker handler leaves the call in flight and the
\* position of the tick alone, and every createOrder, cancelOrder and
\* cancelAllOrders in flight belongs to an executing tick.
C3_FeedsIssueNoCalls ==
  [][/\ (AccountFeed \/ OrdersFeed \/ DepthFeed \/ TickerFeed)
          => UNCHANGED <<call, pc, processing>>
     /\ call'.op # "none" => processing' /\ pc' # "idle"]_vars
\* the account feed has delivered while a tick was suspended on a placement
C3_Witness ==
  /\ pc = "place" /\ call.op = "createOrder"
  /\ loc.position # getPosition(accountSnapshot)

\* C4: a tick that the rate-limit controller answers paused or skip is a
\* no-op: it issues no operation and leaves the open orders, the locks,
\* their timers and pending ids and the pending cancels as they are.
C4_GatedTickIsNoOp ==
  [][(TimerFire /\ ~processing /\ beforeCycle(rateLimit, now) # "run")
       => (UNCHANGED orderVars /\ call' = NoCall /\ pc' = "idle" /\ ~processing')]_vars
\* the controller is paused while the engine is idle, ready and has orders
C4_Witness ==
  /\ ~processing /\ beforeCycle(rateLimit, now) = "paused"
  /\ isReady(S) /\ initialOrderResetDone /\ openOrders # {}

\* C5: the engine is not ready, and no exchange operation is in flight,
\* until the account, orders, depth and ticker feeds have each delivered.
C5_FourFeedsBeforeReady ==
  (isReady(S) \/ call.op # "none")
    => /\ accountSnapshot # Null /\ depthSnapshot # Null
       /\ initialOrderSnapshotReady /\ tickerSnapshot

\* C6: nothing is placed and no single order is cancelled before the
\* startup reset has completed; the reset completes only after the first
\* orders snapshot, when there are no resting orders or on the answer to
\* cancelAllOrders, which completes it when it succeeds or fails with
\* unknown-order and otherwise ends the tick with the reset incomplete;
\* the next tick then calls cancelAllOrders again.
C6_StartupResetFirst ==
  [][/\ call'.op \in {"createOrder", "cancelOrder"} => initialOrderResetDone'
     /\ initialOrderResetDone' => initialOrderSnapshotReady'
     /\ (~initialOrderResetDone /\ initialOrderResetDone')
          => (pc = "reset" \/ (pc = "idle" /\ openOrders = {}))
     /\ \A o \in {"ok", "unknown"} :
          (pc = "reset" /\ Set(onReset(S, o))) => initialOrderResetDone'
     /\ \A o \in {"ratelimit", "other"} :
          (pc = "reset" /\ Set(onReset(S, o)))
            => (~initialOrderResetDone' /\ pc' = "idle" /\ call' = NoCall)
     /\ (/\ TimerFire /\ ~processing /\ beforeCycle(rateLimit, now) = "run"
         /\ isReady(S) /\ ~initialOrderResetDone /\ initialOrderSnapshotReady
         /\ openOrders # {})
          => call' = CancelAllCall]_vars
\* the cancelAllOrders of the startup reset is in flight
C6_Witness == pc = "reset" /\ call = CancelAllCall /\ ~initialOrderResetDone

\* the call in flight is answered with a rate-limit error
RateLimitAnswer ==
  \/ pc = "reset" /\ Set(onReset(S, "ratelimit"))
  \/ pc = "flush" /\ Set(onFlush(S, "ratelimit"))
  \/ pc = "mclose" /\ Set(onMarketClose(S, "ratelimit"))
  \/ pc = "cancel" /\ Set(onCancel(S, "ratelimit"))
  \/ pc = "place" /\ Set(onPlace(S, "ratelimit"))
  \/ pc = "prestop" /\ Set(onPreStop(S, "ratelimit"))
  \/ pc = "stopPlace" /\ Set(onStopPlace(S, "ratelimit"))
  \/ pc = "repCancel" /\ Set(onReplaceCancel(S, "ratelimit"))
  \/ pc = "repPlace" /\ Set(onReplacePlace(S, "ratelimit"))
  \/ pc = "repRestore" /\ Set(onReplaceRestore(S, "ratelimit"))
  \/ pc = "exCancel" /\ Set(onExactCancel(S, "ratelimit"))
  \/ pc = "exPlace" /\ Set(onExactPlace(S, "ratelimit"))

\* C7: a rate-limit error of any exchange operation of a tick flags the
\* controller (registerRateLimit arms the pause), runs enforceRateLimitStop
\* and aborts the cycle: the tick goes on only with the flush and market
\* close of enforceRateLimitStop, and completes with hadRateLimit = true.
C7_RateLimitAbortsCycle ==
  [][RateLimitAnswer
       => /\ now < rateLimit'.pauseUntil
          /\ pc' \in {"idle", "flush", "mclose"}
          /\ pc' # "idle" => hadRateLimit' /\ loc'.ctx = "rl"
          /\ pc' = "idle" => rateLimit'.lastHadRateLimit]_vars

\* C8: where every exchange operation is answered with a rate-limit error
\* and operations keep being issued, the engine reaches a cycle that
\* beforeCycle() answers paused; and never is more than one cycle executing.
C8_StormReachesPause ==
  /\ (env.storm /\ []<>(call.op # "none")) => <>(beforeCycle(rateLimit, now) = "paused")
  /\ [](bodies <= 1)

\* where the tick is suspended after it has derived its desired orders
DerivedPcs ==
  {"cancel", "place", "prestop", "stopPlace", "repCancel", "repPlace",
   "repRestore", "exCancel", "exPlace"}

\* C9: a tick that runs while consecutive429 >= 1 desires no entry order,
\* and for a non-flat position it still desires the reduce-only close.
C9_RateLimitBlocksEntries ==
  (pc \in DerivedPcs /\ shouldBlockEntries(rateLimit))
    => /\ \A i \in 1..Len(desiredOrders) : desiredOrders[i].reduceOnly
       /\ Abs(loc.position.positionAmt) >= EPS
            => /\ Len(desiredOrders) = 1
               /\ desiredOrders[1].reduceOnly
               /\ desiredOrders[1].side = closeSideOf(loc.position)
               /\ desiredOrders[1].amount = Abs(loc.position.positionAmt)
\* a tick runs with consecutive429 >= 1 and places the close of a position
C9_Witness ==
  /\ pc = "place" /\ shouldBlockEntries(rateLimit) /\ ~hadRateLimit
  /\ Abs(loc.position.positionAmt) >= EPS
  /\ call.reduceOnly /\ Len(desiredOrders) = 1
\* a tick runs flat with consecutive429 >= 1 and desires nothing
C9_WitnessFlat ==
  /\ pc = "cancel" /\ shouldBlockEntries(rateLimit)
  /\ Abs(loc.position.positionAmt) < EPS /\ desiredOrders = <<>>

\* C10: after a placeOrder that failed for insufficient balance the tick
\* places no further order.
C10_InsufficientBalanceStopsPlacing ==
  [][(pc = "place" /\ Set(onPlace(S, "insufficient")))
       => call'.op # "createOrder"]_vars

\* C11: an account snapshot that takes |positionAmt| from above EPS to at
\* most EPS arms the post-close cooldown of 10 s, and no step of the engine
\* issues the createOrder of an entry (non-reduce-only) order while the
\* cooldown is active, a tick that was suspended when the snapshot arrived
\* included.
C11_PostCloseCooldownBlocksEntries ==
  [][/\ \A p \in env.positions :
          (/\ Set(accountHandler(S, p))
           /\ lastAbsPositionForCooldown > EPS
           /\ Abs(getPosition(p).positionAmt) <= EPS)
            => postCloseCooldownUntil' = now + PostCloseCooldownMs
     /\ (Program /\ call'.op = "createOrder" /\ ~call'.reduceOnly)
          => ~(now < postCloseCooldownUntil')]_vars

\* the sum of the reduce-only quantities of a sequence of desired orders
RECURSIVE ReduceOnlySum(_)
ReduceOnlySum(orders) ==
  IF orders = <<>> THEN 0
  ELSE (IF Head(orders).reduceOnly THEN Head(orders).amount ELSE 0)
       + ReduceOnlySum(Tail(orders))

\* C12: a tick that derives its quotes with a non-flat position desires
\* exactly one order: reduce-only, on the closing side at the top of book
\* (SELL at the top ask when long, BUY at the top bid when short), for
\* |positionAmt|; so the reduce-only quantities sum to at most
\* |positionAmt| + qtyStep and no entry is desired.
C12_SingleReduceOnlyClose ==
  (pc \in DerivedPcs /\ Abs(loc.position.positionAmt) >= EPS)
    => /\ desiredOrders =
            <<[side |-> IF loc.position.positionAmt > 0 THEN "SELL" ELSE "BUY",
               price |-> IF loc.position.positionAmt > 0
                         THEN loc.closeAsk ELSE loc.closeBid,
               amount |-> Abs(loc.position.positionAmt),
               reduceOnly |-> TRUE]>>
       /\ ReduceOnlySum(desiredOrders) <= Abs(loc.position.positionAmt) + QtyStep
       /\ \A i \in 1..Len(desiredOrders) : desiredOrders[i].reduceOnly
\* the close of a short position is being placed at the top bid
C12_Witness ==
  /\ pc = "place" /\ loc.position.positionAmt < 0
  /\ call.side = "BUY" /\ call.reduceOnly
  /\ call.price = getTopPrices(depthSnapshot).topBid

\* the book is at least 6x against the position
against6x(position, buySum, sellSum) ==
  \/ position.positionAmt > 0 /\ sellSum >= ImbalanceExitRatio * buySum
  \/ position.positionAmt < 0 /\ buySum >= ImbalanceExitRatio * sellSum

\* C13: a tick that reaches its body with an open position and a book at
\* least 6x against it (long: sellSum >= 6 * buySum, short: buySum >=
\* 6 * sellSum) goes into the forced exit: it flushes the open orders and,
\* with none to flush, issues at once the market close of the position on
\* the closing side.
C13_ImbalanceForcesMarketClose ==
  [][(/\ TimerFire /\ ~processing /\ beforeCycle(rateLimit, now) = "run"
      /\ isReady(S) /\ initialOrderResetDone /\ ~locks["MARKET"]
      /\ getTopPrices(depthSnapshot).topBid # NoPrice
      /\ getTopPrices(depthSnapshot).topAsk # NoPrice
      /\ Abs(getPosition(accountSnapshot).positionAmt) >= EPS
      /\ against6x(getPosition(accountSnapshot),
                   depthSnapshot.buySum, depthSnapshot.sellSum))
       => /\ loc'.ctx = "imb"
          /\ pc' \in {"flush", "mclose"}
          /\ openOrders = {} =>
               call' = CreateCall("MARKET", closeSideOf(getPosition(accountSnapshot)),
                                  TRUE, NoPrice)]_vars

\* the tick that fires in this state reaches syncOrders
reachesSyncOrders ==
  /\ ~processing /\ beforeCycle(rateLimit, now) = "run" /\ isReady(S)
  /\ initialOrderResetDone
  /\ getTopPrices(depthSnapshot).topBid # NoPrice
  /\ getTopPrices(depthSnapshot).topAsk # NoPrice
  /\ ~imbalanceExitRequired(getPosition(accountSnapshot),
                            computeDepthStats(depthSnapshot).buySum,
                            computeDepthStats(depthSnapshot).sellSum)
\* the quotes that tick derives
quotesOfTick ==
  desiredQuotes(S, getPosition(accountSnapshot),
                computeDepthStats(depthSnapshot).skipBuySide,
                computeDepthStats(depthSnapshot).skipSellSide)
\* the resting entry order of a side, and whether a quote of that side is
\* suppressed against it
restingEntry(side) ==
  FindFirst({o \in availableOrders(S) : o.side = side /\ ~o.reduceOnly})
suppressed(t) ==
  /\ ~t.reduceOnly
  /\ restingEntry(t.side) # Null
  /\ \/ Abs(t.price - restingEntry(t.side).price) < MinRepriceTicks * PriceTick
     \/ /\ lastEntryOrderBySide[t.side] # NoTime
        /\ now - lastEntryOrderBySide[t.side] < repriceDwellMs

\* C14: when a tick reaches syncOrders with an entry quote whose side has a
\* resting open entry order, and the quote is within minRepriceTicks of the
\* resting price or the last entry placement of the side is younger than
\* repriceDwellMs, the plan neither cancels that resting order nor places
\* an order on that side, and the tick issues neither call.
C14_RepriceSuppressionKeepsResting ==
  [][(TimerFire /\ reachesSyncOrders)
       => \A i \in 1..Len(quotesOfTick) :
            suppressed(quotesOfTick[i])
              => LET t == quotesOfTick[i]
                     plan == syncPlan(S, quotesOfTick)
                 IN /\ \A j \in 1..Len(plan.toCancel) :
                         plan.toCancel[j].orderId # restingEntry(t.side).orderId
                    /\ \A j \in 1..Len(plan.toPlace) : plan.toPlace[j].side # t.side
                    /\ ~(call'.op = "createOrder" /\ call'.side = t.side
                         /\ ~call'.reduceOnly)
                    /\ ~(call'.op = "cancelOrder"
                         /\ call'.orderId = restingEntry(t.side).orderId)]_vars

\* the step carries the tick through syncOrders into ensureProtectiveStop
\* (lines 327-332): no cancel or placement of syncOrders is left to await,
\* and no rate-limit error has ended the body
intoEnsureProtectiveStop ==
  /\ pc' \notin {"cancel", "place", "prestop"}
  /\ \/ pc = "idle" /\ TimerFire /\ reachesSyncOrders
     \/ /\ pc = "cancel"
        /\ \E o \in Answers(CancelOutcomes) :
              safeCancelOrder(o) # "throw" /\ Set(onCancel(S, o))
     \/ PlaceReturns
     \/ PreStopReturns
\* the arguments of that call: the position and the closing-side quote of
\* the tick
ensureArgs ==
  LET top == getTopPrices(depthSnapshot)
      decimals == priceDecimals(PriceTick)
      position == IF pc = "idle" THEN getPosition(accountSnapshot) ELSE loc.position
      bid == IF pc = "idle" THEN formatPriceToString(top.topBid, decimals) ELSE loc.closeBid
      ask == IF pc = "idle" THEN formatPriceToString(top.topAsk, decimals) ELSE loc.closeAsk
  IN [position |-> position,
      lastPrice |-> IF position.positionAmt > 0 THEN bid ELSE ask,
      stopSide |-> closeSideOf(position)]
\* Validity: SELL stop <= lastPrice - tick, BUY stop >= lastPrice + tick
validStop(side, stopPrice, lastPrice) ==
  \/ side = "SELL" /\ stopPrice <= lastPrice - PriceTick
  \/ side = "BUY" /\ stopPrice >= lastPrice + PriceTick
stopLikeOn(orders, side) == \E o \in orders : o.side = side /\ isStopLike(o)

currentStop(side) == findCurrentStop([openOrders |-> openOrders'], side)
\* a stop on the wrong side of the price: a SELL stop at or above it, a BUY
\* stop at or below it
wrongSide(side, stopPrice, lastPrice) ==
  \/ side = "SELL" /\ stopPrice >= lastPrice
  \/ side = "BUY" /\ stopPrice <= lastPrice
strictlyTighter(side, newStop, stopPrice) ==
  \/ side = "SELL" /\ newStop > stopPrice
  \/ side = "BUY" /\ newStop < stopPrice

\* C16: when ensureProtectiveStop finds a stop on the closing side of a
\* position with a known entry price and a valid computed stop, and that
\* stop rests on the wrong side of the price or the computed stop is
\* strictly tighter, it replaces the stop (it cancels it), and the stop the
\* replacement places is valid.
C16_StaleStopReplacedByValidStop ==
  [][/\ intoEnsureProtectiveStop
        => LET a == ensureArgs
               current == currentStop(a.stopSide)
           IN (/\ Abs(a.position.positionAmt) >= EPS
               /\ hasEntryPrice(a.position)
               /\ validStop(a.stopSide, rawStopOf(a.position), a.lastPrice)
               /\ current # Null
               /\ \/ wrongSide(a.stopSide, current.stopPrice, a.lastPrice)
                  \/ strictlyTighter(a.stopSide, rawStopOf(a.position), current.stopPrice))
                => pc' = "repCancel" /\ call' = CancelCall(current.orderId)
     /\ (pc = "repCancel" /\ ReplaceCancelReturns /\ pc' = "repPlace")
        => validStop(call'.side, call'.price, closeSidePx(S))]_vars

\* C17: on both replacement paths, when the placement of the new stop
\* fails and the previous stop is still valid for the side against
\* lastPrice, the next call of the tick places the previous stop again.
C17_FailedReplacementRestoresStop ==
  [][\A o \in Answers(Outcomes) \ {"ok"} :
       /\ (/\ pc = "repPlace" /\ Set(onReplacePlace(S, o))
           /\ validStop(call.side, loc.cur.stopPrice, closeSidePx(S)))
            => pc' = "repRestore" /\ call' = stopCall(call.side, loc.cur.stopPrice)
       /\ (/\ pc = "exPlace" /\ Set(onExactPlace(S, o))
           /\ validStop(call.side, loc.cur.stopPrice, closeSidePx(S)))
            => call' = stopCall(call.side, loc.cur.stopPrice)]_vars

\* C18: with both offsets zero, the step that answers an entry placement
\* with success issues, the STOP slot being free, the reduce-only stop on
\* the opposite side: SELL at topAsk after a BUY entry, BUY at topBid
\* after a SELL entry.
C18_EntryFollowedByPreemptiveStop ==
  [][(/\ bothOffsetsZero
      /\ pc = "place" /\ ~call.reduceOnly /\ ~locks["STOP"]
      /\ Set(onPlace(S, "ok")))
       => /\ pc' = "prestop"
          /\ call' = IF call.side = "BUY"
                     THEN stopCall("SELL", getTopPrices(depthSnapshot).topAsk)
                     ELSE stopCall("BUY", getTopPrices(depthSnapshot).topBid)]_vars

\* C19: the step in which shouldStopLoss fires asks to cancel the working
\* orders first, and the close of the stop-loss is issued only when none
\* is left to ask for; that close is reduce-only on the closing side, a
\* LIMIT order (IOC) when strictLimitOnly is configured and a market close
\* otherwise.
C19_StopLossFlushesThenCloses ==
  [][/\ (loc.ctx # "risk" /\ loc'.ctx = "risk")
        => \/ pc' = "flush" /\ call'.op = "cancelOrder"
           \/ /\ pc' = "mclose"
              /\ \A o \in openOrders' : o.orderId \in pendingCancelOrders'
     /\ (loc'.ctx = "risk" /\ pc' = "mclose" /\ pc # "mclose")
        => /\ pc = "flush" => \A i \in 2..Len(loc.queue) :
                                 loc.queue[i].orderId \in pendingCancelOrders
           /\ call'.op = "createOrder" /\ call'.reduceOnly
           /\ call'.side = closeSideOf(loc'.position)
           /\ call'.type = IF env.strictLimitOnly THEN "LIMIT" ELSE "MARKET"]_vars

\* C20: reconcileOrphanedPosition with a flat position returns
\* tookAction = false and sends no order, whatever the prices, the open
\* orders and the options are.
C20_FlatPositionNoAction ==
  (/\ reconciliation # Null
   /\ reconciliation.result # Null
   /\ Abs(reconciliation.params.position.positionAmt) < EPS)
    => /\ ~reconciliation.result.tookAction
       /\ reconciliation.result.order = Null
\* a flat position with nothing else in the way of an order: prices at
\* hand, no open order, the slot free, the exchange accepting
C20_Witness ==
  /\ reconciliation # Null
  /\ reconciliation.params.position = FlatPosition
  /\ reconciliation.params.openOrders = {}
  /\ reconciliation.params.prices = [topBid |-> 1000, topAsk |-> 1010, lastPrice |-> 1004]
  /\ ~reconciliation.params.locked
  /\ reconciliation.answer = "ok"
  /\ reconciliation.result # Null
  /\ ~reconciliation.result.tookAction

\* type contains "STOP"
stopFamily(type) == type \in {"STOP", "STOP_MARKET", "TRAILING_STOP_MARKET"}
\* an order that protects the closing side: reduce-only or stop-like
protects(o, closeSide) ==
  o.side = closeSide /\ (o.reduceOnly \/ o.stopPrice > 0 \/ stopFamily(o.type))

\* C21: reconcileOrphanedPosition returns tookAction = false and sends no
\* order whenever an open order on the closing side is reduce-only or
\* stop-like (stopPrice > 0 or a type of the STOP family); the orders of
\* the opposite side do not change its result.
C21_ProtectionPresentNoAction ==
  (reconciliation # Null /\ reconciliation.result # Null)
    => LET params == reconciliation.params
           closeSide == closeSideOf(params.position)
       IN /\ (\E o \in params.openOrders : protects(o, closeSide))
               => /\ ~reconciliation.result.tookAction
                  /\ reconciliation.result.order = Null
          /\ reconciliation.result =
               reconcileOrphanedPosition(
                 [params EXCEPT !.openOrders = {o \in @ : o.side = closeSide}],
                 reconciliation.answer)

\* the price section 4.4 closes at: topAsk for SELL, topBid for BUY, else
\* lastPrice, else none
closePriceOf(closeSide, prices) ==
  IF closeSide = "SELL"
  THEN (IF prices.topAsk # NoPrice THEN prices.topAsk ELSE prices.lastPrice)
  ELSE (IF prices.topBid # NoPrice THEN prices.topBid ELSE prices.lastPrice)

\* C22: for a position that is not flat and has no protection on its
\* closing side, with an exchange that accepts what it is sent,
\* reconcileOrphanedPosition takes no action when no price is available,
\* and otherwise sends one reduce-only LIMIT order on the closing side for
\* |positionAmt| at topAsk (SELL) or topBid (BUY), else lastPrice, in the
\* decimals of the tick, with TIF = IOC exactly when ioc or strictLimitOnly
\* is set, and returns tookAction = true.
C22_OrphanGetsOneCloseOrder ==
  (/\ reconciliation # Null /\ reconciliation.result # Null
   /\ reconciliation.answer = "ok"
   /\ Abs(reconciliation.params.position.positionAmt) >= EPS
   /\ ~\E o \in reconciliation.params.openOrders :
          protects(o, closeSideOf(reconciliation.params.position)))
    => LET params == reconciliation.params
           closeSide == closeSideOf(params.position)
           chosen == closePriceOf(closeSide, params.prices)
       IN IF chosen = NoPrice
          THEN ~reconciliation.result.tookAction /\ reconciliation.result.order = Null
          ELSE /\ reconciliation.result.tookAction
               /\ reconciliation.result.order =
                    [type |-> "LIMIT", side |-> closeSide,
                     price |-> formatPriceToString(chosen, priceDecimals(PriceTick)),
                     amount |-> Abs(params.position.positionAmt), reduceOnly |-> TRUE,
                     timeInForce |-> IF params.ioc \/ params.strictLimitOnly
                                     THEN "IOC" ELSE "GTC"]

\* C23: reconcileOrphanedPosition is idempotent: when a first call sent its
\* order and returned tookAction = true, a second call with the same
\* position, open orders, lock map and prices returns tookAction = false
\* and sends nothing, so at most one order is sent in total.
C23_SecondCallTakesNoAction ==
  (/\ reconciliation # Null /\ reconciliation.result # Null
   /\ reconciliation.again # Null
   /\ reconciliation.result.tookAction /\ reconciliation.result.order # Null)
    => ~reconciliation.again.tookAction /\ reconciliation.again.order = Null

\* C24: a call of reconcileOrphanedPosition that returns tookAction = true
\* has submitted one protective order, never none; a call whose placement
\* the exchange refuses returns tookAction = false (the error is caught, a
\* result is returned).
C24_TookActionMeansOrderSubmitted ==
  (reconciliation # Null /\ reconciliation.result # Null)
    => /\ reconciliation.result.tookAction => reconciliation.result.order # Null
       /\ (reconciliation.result.order # Null /\ reconciliation.answer # "ok")
            => ~reconciliation.result.tookAction

\* C25: no exchange error ends the engine: every error of a tick, those
\* raised while enforceRateLimitStop flushes inside the catch of tick()
\* included, is caught and logged, and tick() never rejects.
C25_TickNeverRejects == ~rejected

\* C26: every price of desiredOrders is an integer multiple of priceTick,
\* whatever the priceTick (0.5, 0.03 and 5 included), the prices being
\* rounded to floor(log10(1 / priceTick)) decimals.
C26_DesiredPricesOnTickGrid ==
  (pricing # Null /\ pricing.result # Null)
    => \A i \in 1..Len(pricing.result.desiredOrders) :
         pricing.result.desiredOrders[i].price % pricing.input.priceTick = 0

\* C27: on a book and a position that stay as they are, once the exchange
\* has applied the cancels and placements and the orders feed has delivered
\* the result, the engine reaches ticks that send no placement and no
\* cancel: from some point on no exchange call is issued.
C27_PlanConverges == <>[](call.op = "none")

\* C28: the feeds live until stop(): while the engine is stopped, a
\* delivery of the account, orders or depth feed changes nothing of the
\* engine's state, and no exchange operation is started.
C28_StoppedEngineIsQuiet ==
  [][~timer
       => /\ \A p \in env.positions : Set(accountHandler(S, p)) => UNCHANGED vars
          /\ \A os \in OrderSnapshots(env.orders) :
                Set(ordersHandler(S, os)) => UNCHANGED vars
          /\ \A d \in env.depths : Set(depthHandler(S, d)) => UNCHANGED vars
          /\ call' # call => call'.op = "none"]_vars

\* C29: within one tick every step observes the openOrders the tick had
\* at its entry: for every delivery of the orders feed to a suspended tick,
\* the exchange call the tick issues next is the one it would issue on the
\* openOrders it had before the delivery.
C29_TickReadsOneSnapshot ==
  pc # "idle"
    => \A os \in OrderSnapshots(env.orders) :
         LET delivered == ordersHandler(S, os)
         IN answered(delivered, "ok").call
              = answered([delivered EXCEPT !.openOrders = openOrders], "ok").call

\* C30: an order whose id is in pendingCancelOrders is not targeted again:
\* no step of syncOrders, flushOrders, tryReplaceStop or replaceStopExact
\* issues a cancelOrder for an id that is already in the set.
C30_PendingCancelNotRetargeted ==
  [][(call' # call /\ call'.op = "cancelOrder")
       => call'.orderId \notin pendingCancelOrders]_vars

\* the coordinator slot of an order type
slotOfType(type) == IF type = "LIMIT" THEN "LIMIT" ELSE IF type = "STOP" THEN "STOP" ELSE "MARKET"

\* C31: at most one operation is pending per coordinator slot (no
\* createOrder is issued on a slot that has a pending order), and a delivery of the
\* orders feed releases a slot's lock only when the snapshot shows the
\* slot's pending order with a terminal status: a slot whose pending order
\* is NEW or PARTIALLY_FILLED, or is not in the snapshot, stays locked.
C31_LockReleasedOnTerminalOnly ==
  [][/\ (call' # call /\ call'.op = "createOrder") => pending'[slotOfType(call'.type)] = 0
     /\ \A os \in OrderSnapshots(env.orders) :
          Set(ordersHandler(S, os))
            => \A x \in Slots :
                 (locks[x] /\ ~locks'[x])
                   => \E o \in os : /\ o.orderId = pending[x]
                                     /\ o.status \notin {"NEW", "PARTIALLY_FILLED"}]_vars

\* the first order of a queue that is not pending cancel, if any
RECURSIVE firstNotPending(_, _)
firstNotPending(queue, pendingIds) ==
  IF queue = <<>> THEN Null
  ELSE IF Head(queue).orderId \in pendingIds THEN firstNotPending(Tail(queue), pendingIds)
  ELSE Head(queue)
inOpenOrders(orders, id) == \E o \in orders : o.orderId = id
\* the tick goes on after the cancel at the head of its queue: with the
\* next cancel, else with what follows the loop (placements after
\* syncOrders, the market close after flushOrders)
goesOn(at, cancelled) ==
  LET next == firstNotPending(Tail(loc.queue), pendingCancelOrders \ cancelled)
  IN /\ ~rejected'
     /\ pc' # "idle" => hadRateLimit' = hadRateLimit
     /\ next # Null => pc' = at /\ call' = CancelCall(next.orderId)
     /\ (next = Null /\ at = "cancel" /\ loc.place # <<>> /\ Head(loc.place).amount >= EPS
           /\ ~locks["LIMIT"])
          => /\ pc' = "place"
             /\ call' = CreateCall("LIMIT", Head(loc.place).side,
                                    Head(loc.place).reduceOnly, Head(loc.place).price)
     /\ (next = Null /\ at = "flush" /\ ~locks["MARKET"])
          => pc' = "mclose" /\ call'.type = "MARKET"

\* C32: a cancel of syncOrders or flushOrders that fails with unknown-order
\* or with a transport / rejected error removes the order from openOrders
\* and from pendingCancelOrders, and the tick goes on with the remaining
\* cancels and placements; a cancel that succeeds leaves the order in
\* openOrders and in pendingCancelOrders, and no step but a delivery of
\* the orders feed (or the startup reset) takes it out of them afterwards.
C32_FailedCancelDropsMirror ==
  [][/\ \A o \in {"unknown", "other"} :
          /\ (pc = "cancel" /\ Set(onCancel(S, o)))
               => /\ call.orderId \notin pendingCancelOrders'
                  /\ ~inOpenOrders(openOrders', call.orderId)
                  /\ goesOn("cancel", {call.orderId})
          /\ (pc = "flush" /\ Set(onFlush(S, o)))
               => /\ call.orderId \notin pendingCancelOrders'
                  /\ ~inOpenOrders(openOrders', call.orderId)
                  /\ goesOn("flush", {call.orderId})
     /\ \A at \in {"cancel", "flush"} :
          (/\ pc = at /\ Set(answered(S, "ok"))
           /\ call.orderId \in pendingCancelOrders /\ inOpenOrders(openOrders, call.orderId))
            => /\ call.orderId \in pendingCancelOrders'
               /\ inOpenOrders(openOrders', call.orderId)
               /\ goesOn(at, {})
     /\ (/\ ~\E os \in OrderSnapshots(env.orders) : Set(ordersHandler(S, os))
         /\ pc # "reset"
         /\ ~(pc \in {"cancel", "flush"} /\ \E o \in {"unknown", "other"} : Set(answered(S, o))))
          => \A id \in pendingCancelOrders :
               inOpenOrders(openOrders, id)
                 => id \in pendingCancelOrders' /\ inOpenOrders(openOrders', id)]_vars

\* the open orders that take part in the plan: not pending cancel, not
\* stop-like, not in a terminal status
TerminalStatuses == {"FILLED", "CANCELED", "EXPIRED", "REJECTED"}
restingQuotes ==
  {o \in openOrders : /\ o.orderId \notin pendingCancelOrders
                       /\ ~isStopLike(o)
                       /\ o.status \notin TerminalStatuses}
\* C33: the plan that syncOrders computes for the quotes of the tick is the
\* plan of makeOrderPlan over exactly the resting quotes: the local open
\* orders that are not pending cancel, not stop-like and not terminal,
\* those with status NEW and PARTIALLY_FILLED included.
C33_PlanOverRestingQuotes ==
  reachesSyncOrders
    => syncPlan(S, quotesOfTick)
         = makeOrderPlan(restingQuotes,
                         [i \in 1..Len(quotesOfTick) |->
                            adjustTarget(S, availableOrders(S), quotesOfTick[i])])

\* the triggers of the protective stops that rest at the exchange on the
\* closing side of the position
liveStopTriggers ==
  {o.stopPrice : o \in {x \in exchange : /\ x.stopPrice > 0
                                          /\ x.side = closeSideOf(getPosition(accountSnapshot))}}
StopTriggers == {LongPosition.entryPrice + k * PriceTick : k \in -1..3}
\* C34: while the position stays open in one direction the protective stop
\* only tightens: once a stop with trigger p rests at the exchange, no stop
\* of a long position rests there later with a trigger below p, and no
\* stop of a short position with a trigger above p.
C34_StopOnlyTightens ==
  \A p \in StopTriggers :
    [](p \in liveStopTriggers
        => [](\A q \in liveStopTriggers :
                IF getPosition(accountSnapshot).positionAmt > 0 THEN q >= p ELSE q <= p))

\* C35: at most one protective stop is live at the exchange on the closing
\* side: the engine submits no stop while a stop that it submitted before
\* still rests there on that side.
C35_OneLiveStop ==
  [][(call' # call /\ call'.op = "createOrder" /\ call'.type = "STOP")
       => ~\E o \in exchange' : o.stopPrice > 0 /\ o.side = call'.side]_vars

\* C36: a tick that the rate-limit controller gates (beforeCycle answers
\* paused or skip) is not a good cycle: it leaves consecutive429 as it is,
\* so that entries stay blocked until a cycle has run.
C36_GatedTickKeepsCount ==
  [][(/\ ~tickGuard(S) /\ beforeCycle(rateLimit, now) # "run"
      /\ Set(tickEntry(S)))
       => /\ rateLimit'.consecutive429 = rateLimit.consecutive429
          /\ shouldBlockEntries(rateLimit') = shouldBlockEntries(rateLimit)]_vars

\* this step is the exchange's acceptance of the entry order of the side
\* that placeOrder submitted
entryAccepted(side) ==
  /\ pc = "place" /\ call.op = "createOrder" /\ call.type = "LIMIT"
  /\ call.side = side /\ ~call.reduceOnly
  /\ pending'["LIMIT"] = call.orderId
\* C37: lastEntryOrderBySide[side] is stamped, and the pre-emptive stop is
\* sent, only when an entry order of that side was submitted and accepted; a
\* placeOrder that returns without placing because the LIMIT slot is
\* locked does neither.
C37_EntryRecordedOnlyWhenPlaced ==
  [][/\ (call' # call /\ pc' = "prestop") => entryAccepted("BUY")
     /\ \A side \in Sides :
          (lastEntryOrderBySide'[side] = now /\ lastEntryOrderBySide[side] # now)
            => (pc = "prestop" /\ side = "BUY") \/ entryAccepted(side)]_vars

\* the account handler takes the position for flat: delivered to an
\* engine that was exposed, it starts the post-close cooldown
flatToAccountHandler(position) ==
  accountHandler([S EXCEPT !.lastAbsPositionForCooldown = TradeAmount,
                           !.postCloseCooldownUntil = now],
                 position).postCloseCooldownUntil > now
\* tick takes the position for flat: it derives no reduce-only close
flatToQuotes(position) ==
  LET quotes == desiredQuotes(S, position, FALSE, FALSE)
  IN \A i \in 1..Len(quotes) : ~quotes[i].reduceOnly
\* handleImbalanceExit takes the position for flat: it does not exit on a
\* book without bids or without asks
flatToImbalanceExit(position) ==
  ~imbalanceExitRequired(position, 0, 1) /\ ~imbalanceExitRequired(position, 1, 0)
\* C38: the account handler's edge detection, the tick's quote branch and
\* handleImbalanceExit agree on whether the position of the account
\* snapshot is flat, whatever its amount.
C38_FlatMeansTheSameEverywhere ==
  (accountSnapshot # Null /\ depthSnapshot # Null)
    => /\ flatToAccountHandler(accountSnapshot) = flatToQuotes(accountSnapshot)
       /\ flatToQuotes(accountSnapshot) = flatToImbalanceExit(accountSnapshot)

\* the orders of a queue
queued(queue) == {queue[i] : i \in 1..Len(queue)}
\* C39: in a tick in which the extreme-imbalance exit fires, every open
\* order that is not pending cancel is asked to cancel before the market
\* close is sent, and the tick ends after the market close, whatever its
\* answer, without deriving quotes and without a LIMIT or STOP order.
C39_ImbalanceExitOnlyFlushesAndCloses ==
  [][/\ (loc'.ctx = "imb" /\ loc.ctx # "imb")
          => \A o \in openOrders' :
               o.orderId \in pendingCancelOrders' \/ o \in queued(loc'.queue)
     /\ (loc.ctx = "imb" /\ pc = "flush" /\ call' # call /\ pc' # "idle")
          => \A o \in queued(Tail(loc.queue)) :
               o.orderId \in pendingCancelOrders \/ o \in queued(loc'.queue)
     /\ loc'.ctx = "imb"
          => /\ pc' \in {"flush", "mclose"}
             /\ desiredOrders' = <<>>
             /\ pc' = "flush" => call' = CancelCall(Head(loc'.queue).orderId)
             /\ pc' = "mclose" => /\ loc'.queue = <<>>
                                  /\ call'.op = "createOrder" /\ call'.type = "MARKET"
     /\ (loc.ctx = "imb" /\ pc = "mclose" /\ call' # call)
          => pc' = "idle" /\ ~processing' /\ call' = NoCall]_vars
\* the market close of an imbalance exit is in flight after the cancels of
\* two open orders
C39_Witness ==
  /\ loc.ctx = "imb" /\ pc = "mclose"
  /\ Cardinality(openOrders) = 2
  /\ \A o \in openOrders : o.orderId \in pendingCancelOrders

\* C40: every tick that starts finishes and releases the processing
\* guard, on every path, when every exchange call is answered: no tick is
\* over with the guard still set, and a set guard is released later.
C40_TickReleasesGuard ==
  /\ [](pc = "idle" => ~processing)
  /\ processing ~> ~processing
\* a tick is in its catch block for a rate-limit error, waiting for the
\* answer to the market close of enforceRateLimitStop
C40_Witness == processing /\ pc = "mclose" /\ loc.ctx = "rl"

====
